---- MODULE Spec2Model ----
(***************************************************************************)
(* A model of ydb-platform/udev-manager: the Mux publish/subscribe hub     *)
(* (internal/mux/mux.go), the udev Discovery monitor                       *)
(* (internal/udev/udev.go), and the plugin Resources                       *)
(* (internal/plugin/partition.go, internal/plugin/resource.go).            *)
(*                                                                         *)
(* Every goroutine is a small state machine; a channel operation is one    *)
(* step.  Each component has its own specification (SpecMux, SpecDisc,     *)
(* ...); the variables of the other components stay at their initial       *)
(* values.                                                                 *)
(***************************************************************************)
EXTENDS Integers, Sequences, FiniteSets, TLC

\* ------------------------------------------------------------------ bounds
MaxVals == 3
MaxBuf == 2
MaxEvents == 2
MaxDeltas == 2
MaxAdds == 2
MaxRestarts == 1
MaxScEvents == 2
MaxSlEvents == 3
MaxContainers == 2
MaxDevIds == 2
MaxRetries == 3
MaxIn == 3

\* ------------------------------------------------------------- the domains
Sinks == {"s1", "s2"}
Procs == {"p1", "p2"}
NoVal == [k |-> "none"]
NoSink == "nosink"
Val(n) == [k |-> "val", n |-> n]
Ids == {"a", "b"}
Absent == 0
NilDev == [id |-> "nil", ver |-> Absent]
Dev(id, ver) == [id |-> id, ver |-> ver]
Mon == "mon"
Calls == {"c1", "c2"}
NoInst == [id |-> "none"]
Healths == {"Healthy", "Unhealthy"}
Domains == {"a", "a/b"}
Prefixes == {"c", "b/c"}
NoName == ""
NoTpl == [domain |-> "", prefix |-> ""]

VARIABLES
  \* Mux[T] (mux.go:121-130) and its run goroutine
  input,        \* the buffered part of chan T `input`
  inputClosed,  \* close(c.input) has run
  register,     \* sinks whose Subscribe is blocked in `c.register <- ar`
  regClosed,    \* close(c.register) has run (Mux.Close)
  unregister,   \* sinks whose cancel is blocked in `c.unregister <- ar`
  outputs,      \* map[Sink[T]]bool
  inBufSize,    \* cap(input)
  hubPc,        \* "select" | "deliver" | "reply" | "exited"
  hubCur,       \* the value v of a running `for out := range c.outputs`
  hubTarget,    \* the sink `out` whose Submit(v) is running
  hubPending,   \* the sinks the range loop has still to visit
  hubArg,       \* the sink ar.value of a reply in progress
  muxSend,      \* per caller of Submit: the value it is blocked sending
  sndRes,       \* per caller of Submit: how its last call ended
  subSt,        \* per sink: where its Subscribe / cancel call stands
  \* a chanSink (mux.go:100-111) and the goroutine reading its channel
  sinkClosed,   \* close(c.ch) has run
  reads,        \* whether the goroutine behind the sink receives from it
  recv,         \* what that goroutine has received, in order
  crashed,      \* a goroutine panicked: the process is gone
  \* the callers of one Mux (mux_test)
  nextVal,
  closeAt,      \* history: nextVal when Close was called, 0 before
  \* history
  accepted,     \* the values in the order input took them
  regAtTake,    \* per taken value: outputs when run() received it
  timedOut      \* some Submit returned the timeout error

muxVars == <<input, inputClosed, register, regClosed, unregister, outputs,
             inBufSize, hubPc, hubCur, hubTarget, hubPending, hubArg,
             muxSend, sndRes, subSt, sinkClosed, reads, recv, crashed,
             accepted, regAtTake, timedOut>>
clientVars == <<nextVal, closeAt>>

VARIABLES
  \* udevDiscovery (udev.go:197-203) and its monitor goroutine
  state,        \* map[Id]Device: per identity the device's version, or Absent
  requests,     \* the requests blocked in `d.requests <- await`
  monPc,        \* "select" | "init" | "subscribe"
  monSink,      \* the sink r.sink of the newSub being handled
  monInit,      \* the Init event built for it
  dsubSt,       \* per sink: where its Discovery.Subscribe call stands
  evCount,      \* kernel events handled so far
  \* history
  subTable,     \* per sink: the table when its newSub was handled
  subAt         \* per sink: Len(accepted) when its newSub was handled

discVars == <<state, requests, monPc, monSink, monInit, dsubSt, evCount,
              subTable, subAt>>

VARIABLES
  \* resource (partition.go:233-237) / singletonResource (resource.go:86-90)
  instances,    \* map[Id]Instance; for a singletonResource its one instance
  hcSend,       \* the HealthEvent a Submit is blocked sending on healthCh
  lastInst,     \* per identity: the instance the mapper last made of its device
  nDeltas,      \* HealthEvents handled so far
  \* one run goroutine and one instanceCh per ListAndWatch call
  runPc,        \* "none" | "first" | "recv" | "merge" | "emit"
  runEv,        \* the HealthEvent ev the goroutine holds
  instanceCh,   \* chan []Instance, capacity 1
  \* the plugin's ListAndWatch handler of that call (part_004:82-101)
  consOpen,     \* the handler is in its range loop
  got,          \* the device lists it has sent to the stream
  \* history
  out,          \* per call: the batches run() has put on instanceCh
  mergeLog,     \* the merged HealthEvents, in merge order
  startAt,      \* per call: Len(mergeLog) when its first batch was taken
  lastVerdict,  \* per identity: the verdict of the last merged event naming it
  handled       \* the health updates the Resource was given, in order

resVars == <<instances, hcSend, lastInst, nDeltas, runPc, runEv, instanceCh,
             consOpen, got, out, mergeLog, startAt, lastVerdict, handled>>

VARIABLES
  \* Registry (udev.go:413-418), its plugins and the kubelet
  plugins,      \* sync.Map: the stored (resource name, plugin) pairs
  plugs,        \* every plugin newPlugin has made: its name and its state
                \* "serving" | "cancelled" | "stopped"
  sockFile,     \* per socket path: the plugin whose socket file is there, or 0
  kubeReg,      \* the resource names registered with the running kubelet
  fsPending,    \* a create event waits in watcher.Events
  restarts,     \* kubelet restarts so far
  hupPc,        \* "idle" | "range"
  hupTodo,      \* the names Range has still to visit
  hupCur,       \* the name whose plugin hup has stopped and not yet remade
  \* history
  addLog,       \* per Add call: the name, whether it was stored, the result
  envFailed     \* some net.Listen or kubelet registration has failed

regVars == <<plugins, plugs, sockFile, kubeReg, fsPending, restarts, hupPc,
             hupTodo, hupCur, addLog, envFailed>>

VARIABLES
  \* Scatter (scatter.go:10-15), its run goroutine and its Resources
  routes,       \* map[ResourceTemplate]Resource: per template a Resource, or 0
  ress,         \* every Resource added() has made: its template and its table
  scTodo,       \* what run() has still to do for the event it received
  scSub,        \* the Resource and HealthEvent of a res.Submit in progress
  lawOn,        \* the Resources whose ListAndWatch run goroutine is there
  scEvents,     \* events received after Init
  \* history
  routedTo      \* per handled added(dev): the device and the Resource it
                \* went to, 0 when it went to none

scatVars == <<routes, ress, scTodo, scSub, lawOn, scEvents, routedTo>>

VARIABLES
  \* udevSlice (udev.go:259-311), its goroutine, and the monitor feeding it
  dtable,       \* Discovery's d.state as the monitor has left it
  slQueue,      \* events the monitor submitted, on their way to evCh
  slFilter,     \* the identities filter() accepts
  slState,      \* slice.state: per identity the device, or NilDev
  slPc,         \* the goroutine: "none", "range", "handle", "panicked"
  slEv,         \* the event the goroutine is handling
  slOut,        \* every copy handed to slice.mux.Submit, in order
  slEvents      \* udev events the monitor has handled

sliceVars == <<dtable, slQueue, slFilter, slState, slPc, slEv, slOut, slEvents>>

VARIABLES
  \* one plugin.Allocate call (part_004:131-158)
  alTable,      \* the identities of p.resource.Instances()
  alReq,        \* request.ContainerRequests: per container its DevicesIDs
  alPc,         \* "none", "called", "returned"
  alResult      \* what the call returned: the error code and the response

allocVars == <<alTable, alReq, alPc, alResult>>

VARIABLES
  \* the lifetime of a Resource and of its ListAndWatch streams
  ctxDone,      \* per call: stream.Context() is cancelled
  healthClosed, \* Resource.Close has closed healthCh
  instClosed    \* per call: run() has closed instanceCh

lifeVars == <<ctxDone, healthClosed, instClosed>>

VARIABLES
  \* Discovery's State and Close requests and the monitor's reconnects
  stSt,         \* the State call: "none", "pending", "done"
  stFilter,     \* the identities its filter accepts
  stReply,      \* the map it returned
  stopSt,       \* the Close call: "none", "pending", "done"
  reqClosed,    \* close(d.requests) has run
  retries       \* channel errors and failed attempts to reopen the channel

dreqVars == <<stSt, stFilter, stReply, stopSt, reqClosed, retries>>

VARIABLES
  \* one Registry.Healthz request (udev.go:513-534)
  hzProbe,      \* the resource names whose probe failed
  hzReply       \* the response: its status and the names in its body

hzVars == <<hzProbe, hzReply>>

VARIABLES
  \* mux.Filter (filter.go:11-25), its goroutine, the writer of `in` and the
  \* reader of `out`
  fPred,        \* the values the filter accepts
  fSent,        \* history: the values written to in, in order
  fInClosed,    \* close(in) has run
  fPc,          \* the goroutine: "none", "range", "send", "done"
  fHold,        \* the value v it is sending on out
  fOut,         \* the values read from out, in order
  fOutClosed    \* close(out) has run

fltVars == <<fPred, fSent, fInClosed, fPc, fHold, fOut, fOutClosed>>

VARIABLES
  \* generic.Parent (udev.go:64-80) over Discovery's table
  kParent,      \* per identity: the identity of its kernel parent, or NoName
  parState,     \* d.state: per identity the version of its device, or Absent
  parField,     \* per table entry: its parent field, NilDev when nil
  parRes,       \* the last Parent() call: the device and what it returned
  parEvents     \* kernel events handled so far

parVars == <<kParent, parState, parField, parRes, parEvents>>

plugVars == <<regVars, scatVars, sliceVars, allocVars, lifeVars, dreqVars,
              hzVars, fltVars, parVars>>

\* What a specification of one component leaves alone.
notMux == <<discVars, resVars, plugVars>>
notDisc == <<clientVars, resVars, plugVars>>
notRes == <<muxVars, clientVars, discVars, plugVars>>
notReg == <<muxVars, clientVars, discVars, resVars, scatVars, sliceVars,
             allocVars, lifeVars, dreqVars, hzVars, fltVars, parVars>>
notScat == <<muxVars, clientVars, discVars, resVars, sliceVars, allocVars,
              lifeVars, dreqVars, hzVars, fltVars, parVars>>
notSlice == <<muxVars, clientVars, discVars, resVars, regVars, scatVars,
               allocVars, lifeVars, dreqVars, hzVars, fltVars, parVars>>
notAlloc == <<muxVars, clientVars, discVars, resVars, regVars, scatVars,
               sliceVars, lifeVars, dreqVars, hzVars, fltVars, parVars>>
notLaw == <<muxVars, clientVars, discVars, regVars, scatVars, sliceVars,
             allocVars, dreqVars, hzVars, fltVars, parVars>>
notHz == <<muxVars, clientVars, discVars, resVars, regVars, scatVars,
           sliceVars, allocVars, lifeVars, dreqVars, fltVars, parVars>>
notFlt == <<muxVars, clientVars, discVars, resVars, regVars, scatVars,
            sliceVars, allocVars, lifeVars, dreqVars, hzVars,
            parVars>>
notDreq == <<clientVars, resVars, regVars, scatVars, sliceVars, allocVars,
              lifeVars, hzVars, fltVars, parVars>>

vars == <<muxVars, clientVars, discVars, resVars, plugVars>>

\* ------------------------------------------------------------ Mux: helpers

\* Make (mux.go:160-180): empty channels, empty outputs, run() at its select.
MuxInit(senders, bufs) ==
  /\ input = <<>>
  /\ inputClosed = FALSE
  /\ register = {}
  /\ regClosed = FALSE
  /\ unregister = {}
  /\ outputs = {}
  /\ inBufSize \in bufs
  /\ hubPc = "select"
  /\ hubCur = NoVal
  /\ hubTarget = NoSink
  /\ hubPending = {}
  /\ hubArg = NoSink
  /\ muxSend = [p \in senders |-> NoVal]
  /\ sndRes = [p \in senders |-> "none"]
  /\ subSt = [s \in Sinks |-> "none"]
  /\ sinkClosed = [s \in Sinks |-> FALSE]
  /\ recv = [s \in Sinks |-> <<>>]
  /\ crashed = FALSE
  /\ accepted = <<>>
  /\ regAtTake = <<>>
  /\ timedOut = FALSE

\* A queue that hands out its newest value first.
DequeueNewest(q) == q[Len(q)]

\* `v := <-c.input` on a buffered channel: Go channels are FIFO.
Dequeue(q) == Head(q)

\* chanSink.Submit (mux.go:104-107): `c.ch <- v` completes when the reader
\* of the unbuffered channel receives.
SinkCanTake(s) == reads[s] /\ ~sinkClosed[s]

SinkTake(log, v) == Append(log, v)

\* The range over the map c.outputs (mux.go:194): Go leaves the order open,
\* so the next sink is any of those not yet visited.
NextTargets(pending) == pending

\* A range loop that stops after its first sink.
StartDeliverFirstOnly(v) ==
  /\ regAtTake' = Append(regAtTake, [v |-> v, outs |-> outputs])
  /\ IF outputs = {}
       THEN /\ hubPc' = "select"
            /\ UNCHANGED <<hubCur, hubTarget, hubPending>>
       ELSE /\ hubPc' = "deliver"
            /\ hubCur' = v
            /\ hubPending' = {}
            /\ \E t \in outputs : hubTarget' = t

\* The body of `case v := <-c.input` (mux.go:193-198) up to the first
\* out.Submit(v): with no outputs the loop is over at once.
StartDeliver(v) ==
  /\ regAtTake' = Append(regAtTake, [v |-> v, outs |-> outputs])
  /\ IF outputs = {}
       THEN /\ hubPc' = "select"
            /\ UNCHANGED <<hubCur, hubTarget, hubPending>>
       ELSE /\ hubPc' = "deliver"
            /\ hubCur' = v
            /\ \E t \in NextTargets(outputs) :
                 /\ hubTarget' = t
                 /\ hubPending' = outputs \ {t}

\* A registration that is acknowledged without being recorded.
RecordedNot(outs, s) == outs

\* `c.outputs[ar.value] = true` (mux.go:203).
Recorded(outs, s) == outs \cup {s}

\* An unregistration that is acknowledged and does nothing.
UnregisterNothing(s) == UNCHANGED <<outputs, sinkClosed, crashed>>

\* mux.go:206-208: the sink is dropped from outputs and closed; closing a
\* closed channel panics.
UnregisterEffects(s) ==
  /\ outputs' = outputs \ {s}
  /\ sinkClosed' = [sinkClosed EXCEPT ![s] = TRUE]
  /\ crashed' = sinkClosed[s]

\* ------------------------------------------------------- Mux: run() steps

\* mux.go:193 with an unbuffered input: run() receives straight from a
\* caller blocked in Submit's `case c.input <- v`, which then returns nil.
HubTakeDirect(p) ==
  /\ ~crashed
  /\ hubPc = "select"
  /\ inBufSize = 0
  /\ muxSend[p] # NoVal
  /\ StartDeliver(muxSend[p])
  /\ accepted' = Append(accepted, muxSend[p])
  /\ muxSend' = [muxSend EXCEPT ![p] = NoVal]
  /\ sndRes' = [sndRes EXCEPT ![p] = "nil"]
  /\ UNCHANGED <<input, inputClosed, register, regClosed, unregister, outputs,
                 inBufSize, hubArg, subSt, sinkClosed, reads, recv, crashed,
                 timedOut>>

\* mux.go:193 with a buffered input: run() receives the oldest queued value.
HubTakeQueued ==
  /\ ~crashed
  /\ hubPc = "select"
  /\ input # <<>>
  /\ StartDeliver(Dequeue(input))
  /\ input' = Tail(input)
  /\ UNCHANGED <<inputClosed, register, regClosed, unregister, outputs,
                 inBufSize, hubArg, muxSend, sndRes, subSt, sinkClosed, reads,
                 recv, crashed, accepted, timedOut>>

\* mux.go:194-198: out.Submit(v) on the current sink returns (chanSink never
\* returns an error), and the range loop moves to the next sink or ends.
HubDeliver ==
  /\ ~crashed
  /\ hubPc = "deliver"
  /\ SinkCanTake(hubTarget)
  /\ recv' = [recv EXCEPT ![hubTarget] = SinkTake(@, hubCur)]
  /\ IF hubPending = {}
       THEN /\ hubPc' = "select"
            /\ hubCur' = NoVal
            /\ hubTarget' = NoSink
            /\ UNCHANGED hubPending
       ELSE /\ \E t \in NextTargets(hubPending) :
                 /\ hubTarget' = t
                 /\ hubPending' = hubPending \ {t}
            /\ UNCHANGED <<hubPc, hubCur>>
  /\ UNCHANGED <<input, inputClosed, register, regClosed, unregister, outputs,
                 inBufSize, hubArg, muxSend, sndRes, subSt, sinkClosed, reads,
                 crashed, accepted, regAtTake, timedOut>>

\* mux.go:199-204: a registration request is received and recorded; run()
\* then blocks in `ar.reply <- struct{}{}`.
HubRegister(s) ==
  /\ ~crashed
  /\ hubPc = "select"
  /\ ~regClosed
  /\ s \in register
  /\ register' = register \ {s}
  /\ outputs' = Recorded(outputs, s)
  /\ hubPc' = "reply"
  /\ hubArg' = s
  /\ UNCHANGED <<input, inputClosed, regClosed, unregister, inBufSize, hubCur,
                 hubTarget, hubPending, muxSend, sndRes, subSt, sinkClosed,
                 reads, recv, crashed, accepted, regAtTake, timedOut>>

\* mux.go:205-209: the sink is dropped from outputs and closed (closing a
\* closed channel panics); run() then blocks in the reply.
HubUnregister(s) ==
  /\ ~crashed
  /\ hubPc = "select"
  /\ s \in unregister
  /\ unregister' = unregister \ {s}
  /\ UnregisterEffects(s)
  /\ hubPc' = "reply"
  /\ hubArg' = s
  /\ UNCHANGED <<input, inputClosed, register, regClosed, inBufSize, hubCur,
                 hubTarget, hubPending, muxSend, sndRes, subSt, reads, recv,
                 accepted, regAtTake, timedOut>>

\* mux.go:204,209 with mux.go:240,245: the caller blocked in ar.Wait()
\* receives the reply; Subscribe (or the cancel func) returns.
HubReply ==
  /\ ~crashed
  /\ hubPc = "reply"
  /\ hubPc' = "select"
  /\ hubArg' = NoSink
  /\ subSt' = [subSt EXCEPT ![hubArg] =
                 IF @ = "registering" THEN "subscribed" ELSE "cancelled"]
  /\ UNCHANGED <<input, inputClosed, register, regClosed, unregister, outputs,
                 inBufSize, hubCur, hubTarget, hubPending, muxSend, sndRes,
                 sinkClosed, reads, recv, crashed, accepted, regAtTake,
                 timedOut>>

\* mux.go:199-201 with the deferred calls of mux.go:183-189: the closed
\* register channel is received from, run() returns, input is closed and
\* every sink still in outputs is deleted and closed.
HubExit ==
  /\ ~crashed
  /\ hubPc = "select"
  /\ regClosed
  /\ hubPc' = "exited"
  /\ inputClosed' = TRUE
  /\ outputs' = {}
  /\ sinkClosed' = [s \in Sinks |-> sinkClosed[s] \/ s \in outputs]
  /\ crashed' = (\E s \in outputs : sinkClosed[s])
  /\ UNCHANGED <<input, register, regClosed, unregister, inBufSize, hubCur,
                 hubTarget, hubPending, hubArg, muxSend, sndRes, subSt, reads,
                 recv, accepted, regAtTake, timedOut>>

\* --------------------------------------------- Mux: the callers' own steps

\* Submit (mux.go:226-229) on a buffered input with room: the value is
\* queued and Submit returns nil.
SubmitEnqueue(p) ==
  /\ ~crashed
  /\ muxSend[p] # NoVal
  /\ ~inputClosed
  /\ Len(input) < inBufSize
  /\ input' = Append(input, muxSend[p])
  /\ accepted' = Append(accepted, muxSend[p])
  /\ muxSend' = [muxSend EXCEPT ![p] = NoVal]
  /\ sndRes' = [sndRes EXCEPT ![p] = "nil"]
  /\ UNCHANGED <<inputClosed, register, regClosed, unregister, outputs,
                 inBufSize, hubPc, hubCur, hubTarget, hubPending, hubArg,
                 subSt, sinkClosed, reads, recv, crashed, regAtTake,
                 timedOut>>

\* Whether `c.input <- v` can go through now.
CanSend ==
  \/ Len(input) < inBufSize
  \/ inBufSize = 0 /\ hubPc = "select"

\* Submit (mux.go:230-231): the timer of time.After fires while the send is
\* still blocked; Submit returns the timeout error and the value is dropped.
SubmitTimeout(p) ==
  /\ ~crashed
  /\ muxSend[p] # NoVal
  /\ ~inputClosed
  /\ ~CanSend
  /\ muxSend' = [muxSend EXCEPT ![p] = NoVal]
  /\ sndRes' = [sndRes EXCEPT ![p] = "timeout"]
  /\ timedOut' = TRUE
  /\ UNCHANGED <<input, inputClosed, register, regClosed, unregister, outputs,
                 inBufSize, hubPc, hubCur, hubTarget, hubPending, hubArg,
                 subSt, sinkClosed, reads, recv, crashed, accepted,
                 regAtTake>>

\* Submit (mux.go:228) after run() has returned: a send on the closed input
\* channel panics.
SubmitPanic(p) ==
  /\ ~crashed
  /\ muxSend[p] # NoVal
  /\ inputClosed
  /\ muxSend' = [muxSend EXCEPT ![p] = NoVal]
  /\ sndRes' = [sndRes EXCEPT ![p] = "panic"]
  /\ crashed' = TRUE
  /\ UNCHANGED <<input, inputClosed, register, regClosed, unregister, outputs,
                 inBufSize, hubPc, hubCur, hubTarget, hubPending, hubArg,
                 subSt, sinkClosed, reads, recv, accepted, regAtTake,
                 timedOut>>

\* Submit (mux.go:226-227) is entered with value v.
SubmitCall(p, v) ==
  /\ ~crashed
  /\ muxSend[p] = NoVal
  /\ muxSend' = [muxSend EXCEPT ![p] = v]
  /\ sndRes' = [sndRes EXCEPT ![p] = "none"]

\* Subscribe (mux.go:237-239) is entered: the caller blocks in
\* `c.register <- ar`; on a closed register channel the send panics.
SubscribeCall(s) ==
  /\ ~crashed
  /\ subSt[s] = "none"
  /\ subSt' = [subSt EXCEPT ![s] = "registering"]
  /\ IF regClosed
       THEN crashed' = TRUE /\ UNCHANGED register
       ELSE register' = register \cup {s} /\ UNCHANGED crashed

\* The cancel func (mux.go:242-244) is entered: the caller blocks in
\* `c.unregister <- ar`.
CancelCall(s) ==
  /\ ~crashed
  /\ subSt[s] = "subscribed"
  /\ subSt' = [subSt EXCEPT ![s] = "cancelling"]
  /\ unregister' = unregister \cup {s}

\* Close (mux.go:221-223): close(c.register); closing it again panics, and
\* so does a Subscribe blocked in its send on it.
MuxClose ==
  /\ ~crashed
  /\ regClosed' = TRUE
  /\ crashed' = (regClosed \/ register # {})
  /\ UNCHANGED <<input, inputClosed, register, unregister, outputs,
                 inBufSize, hubPc, hubCur, hubTarget, hubPending, hubArg,
                 muxSend, sndRes, subSt, sinkClosed, reads, recv, accepted,
                 regAtTake, timedOut>>

\* ------------------------------------------- SpecMux: one Mux and its users

\* A goroutine calls m.Submit with the next fresh value.
CSubmit(p) ==
  /\ nextVal <= MaxVals
  /\ SubmitCall(p, Val(nextVal))
  /\ nextVal' = nextVal + 1
  /\ UNCHANGED closeAt
  /\ UNCHANGED <<input, inputClosed, register, regClosed, unregister, outputs,
                 inBufSize, hubPc, hubCur, hubTarget, hubPending, hubArg,
                 subSt, sinkClosed, reads, recv, crashed, accepted, regAtTake,
                 timedOut>>

\* A goroutine calls m.Subscribe(mux.SinkFromChan(ch)).
CSubscribe(s) ==
  /\ SubscribeCall(s)
  /\ UNCHANGED <<input, inputClosed, regClosed, unregister, outputs,
                 inBufSize, hubPc, hubCur, hubTarget, hubPending, hubArg,
                 muxSend, sndRes, sinkClosed, reads, recv, accepted, regAtTake,
                 timedOut, nextVal, closeAt>>

\* A goroutine calls the cancel func Subscribe returned.
CCancel(s) ==
  /\ CancelCall(s)
  /\ UNCHANGED <<input, inputClosed, register, regClosed, outputs,
                 inBufSize, hubPc, hubCur, hubTarget, hubPending, hubArg,
                 muxSend, sndRes, sinkClosed, reads, recv, crashed, accepted,
                 regAtTake, timedOut, nextVal, closeAt>>

\* A goroutine calls m.Close() (once: the tests close each Mux once).
CClose ==
  /\ ~regClosed
  /\ MuxClose
  /\ closeAt' = nextVal
  /\ UNCHANGED nextVal

\* Discovery before NewDiscovery: nothing there.
DiscIdle ==
  /\ state = [id \in Ids |-> Absent]
  /\ requests = {}
  /\ monPc = "none"
  /\ monSink = NoSink
  /\ monInit = NoVal
  /\ dsubSt = [s \in Sinks |-> "none"]
  /\ evCount = 0
  /\ subTable = [s \in Sinks |-> [id \in Ids |-> Absent]]
  /\ subAt = [s \in Sinks |-> 0]

ClientIdle == nextVal = 1 /\ closeAt = 0

\* No Resource has been made.
ResIdle ==
  /\ instances = [id \in Ids |-> NoInst]
  /\ hcSend = NoVal
  /\ lastInst = [id \in Ids |-> NoInst]
  /\ nDeltas = 0
  /\ runPc = [c \in Calls |-> "none"]
  /\ runEv = [c \in Calls |-> NoVal]
  /\ instanceCh = [c \in Calls |-> <<>>]
  /\ consOpen = [c \in Calls |-> FALSE]
  /\ got = [c \in Calls |-> <<>>]
  /\ out = [c \in Calls |-> <<>>]
  /\ mergeLog = <<>>
  /\ startAt = [c \in Calls |-> 0]
  /\ lastVerdict = [id \in Ids |-> "none"]
  /\ handled = <<>>

\* ResourceTemplate (partition.go:228-231).
Templates == [domain : Domains, prefix : Prefixes]

\* resource.Name (partition.go:239-241).
Name(tpl) == tpl.domain \o "/" \o tpl.prefix

RNames == {Name(tpl) : tpl \in Templates}

\* plugin.socketPath (part_004:160-162) under pluginapi.DevicePluginPath.
SocketPath(n) == n \o ".sock"

SockPaths == {SocketPath(n) : n \in RNames}

\* No Registry has been made.
RegIdle ==
  /\ plugins = {}
  /\ plugs = <<>>
  /\ sockFile = [f \in SockPaths |-> 0]
  /\ kubeReg = {}
  /\ fsPending = FALSE
  /\ restarts = 0
  /\ hupPc = "idle"
  /\ hupTodo = {}
  /\ hupCur = NoName
  /\ addLog = <<>>
  /\ envFailed = FALSE

\* No Scatter has been made.
ScatIdle ==
  /\ routes = [tpl \in Templates |-> 0]
  /\ ress = <<>>
  /\ scTodo = <<>>
  /\ scSub = NoVal
  /\ lawOn = {}
  /\ scEvents = 0
  /\ routedTo = <<>>

\* No Slice has been made.
SliceIdle ==
  /\ dtable = [i \in Ids |-> Absent]
  /\ slQueue = <<>>
  /\ slFilter = {}
  /\ slState = [i \in Ids |-> NilDev]
  /\ slPc = "none"
  /\ slEv = NoVal
  /\ slOut = <<>>
  /\ slEvents = 0

\* No Allocate call has been made.
AllocIdle ==
  /\ alTable = {}
  /\ alReq = <<>>
  /\ alPc = "none"
  /\ alResult = NoVal

\* No stream is cancelled, no channel of the Resource closed.
LifeIdle ==
  /\ ctxDone = [c \in Calls |-> FALSE]
  /\ healthClosed = FALSE
  /\ instClosed = [c \in Calls |-> FALSE]

\* No State or Close request was made, the monitor's channel never failed.
DreqIdle ==
  /\ stSt = "none"
  /\ stFilter = {}
  /\ stReply = [id \in Ids |-> Absent]
  /\ stopSt = "none"
  /\ reqClosed = FALSE
  /\ retries = 0

\* No Healthz request was made.
HzIdle ==
  /\ hzProbe = {}
  /\ hzReply = NoVal

\* No Filter was made.
FltIdle ==
  /\ fPred = {}
  /\ fSent = <<>>
  /\ fInClosed = FALSE
  /\ fPc = "none"
  /\ fHold = NoVal
  /\ fOut = <<>>
  /\ fOutClosed = FALSE

\* No device's Parent() is looked at.
ParIdle ==
  /\ kParent = [id \in Ids |-> NoName]
  /\ parState = [id \in Ids |-> Absent]
  /\ parField = [id \in Ids |-> NilDev]
  /\ parRes = NoVal
  /\ parEvents = 0

PluginIdle ==
  /\ RegIdle /\ ScatIdle /\ SliceIdle /\ AllocIdle /\ LifeIdle /\ DreqIdle
  /\ FltIdle /\ HzIdle /\ ParIdle

InitMux ==
  /\ MuxInit(Procs, {0, MaxBuf})
  /\ reads \in [Sinks -> BOOLEAN]
  /\ ClientIdle
  /\ PluginIdle
  /\ DiscIdle
  /\ ResIdle

NextMux ==
  \/ \E p \in Procs : HubTakeDirect(p) /\ UNCHANGED <<clientVars, notMux>>
  \/ HubTakeQueued /\ UNCHANGED <<clientVars, notMux>>
  \/ HubDeliver /\ UNCHANGED <<clientVars, notMux>>
  \/ \E s \in Sinks : HubRegister(s) /\ UNCHANGED <<clientVars, notMux>>
  \/ \E s \in Sinks : HubUnregister(s) /\ UNCHANGED <<clientVars, notMux>>
  \/ HubReply /\ UNCHANGED <<clientVars, notMux>>
  \/ HubExit /\ UNCHANGED <<clientVars, notMux>>
  \/ \E p \in Procs : SubmitEnqueue(p) /\ UNCHANGED <<clientVars, notMux>>
  \/ \E p \in Procs : SubmitTimeout(p) /\ UNCHANGED <<clientVars, notMux>>
  \/ \E p \in Procs : SubmitPanic(p) /\ UNCHANGED <<clientVars, notMux>>
  \/ \E p \in Procs : CSubmit(p) /\ UNCHANGED notMux
  \/ \E s \in Sinks : CSubscribe(s) /\ UNCHANGED notMux
  \/ \E s \in Sinks : CCancel(s) /\ UNCHANGED notMux
  \/ CClose /\ UNCHANGED notMux

SpecMux == InitMux /\ [][NextMux]_vars

\* ------------------------------------------------------ the Mux's claims

Count(v, log) == Cardinality({i \in 1..Len(log) : log[i] = v})
Delivered(s, v) == Count(v, recv[s]) > 0
PosIn(v, log) == CHOOSE i \in 1..Len(log) : log[i] = v

\* C7: with two subscribers of which one never reads its sink, a handled
\* value still reaches the one that reads: whenever run() is blocked in
\* Submit on a sink nobody reads, every sink that was registered for the
\* value and is read has already received it.
C7_StuckSinkKeepsOthersServed ==
  \A s \in Sinks :
    ( /\ hubPc = "deliver"
      /\ ~reads[hubTarget]
      /\ reads[s]
      /\ s \in regAtTake[Len(regAtTake)].outs )
    => Delivered(s, hubCur)

\* C8: Submit never blocks indefinitely and ends in one of two ways, nil or
\* the timeout error, in every state of the hub: no call ends in a panic
\* and a call in progress is never left with a closed input channel.
C8_SubmitReturnsNilOrTimeout ==
  \A p \in DOMAIN muxSend :
    /\ sndRes[p] \in {"none", "nil", "timeout"}
    /\ muxSend[p] # NoVal => ~inputClosed

\* C9: every subscriber receives the values in the order in which input
\* accepted them: what a sink has received is a subsequence of `accepted`.
C9_DeliveryInAcceptOrder ==
  \A s \in Sinks :
    /\ \A i \in 1..Len(recv[s]) : Count(recv[s][i], accepted) = 1
    /\ \A i, j \in 1..Len(recv[s]) :
         i < j => PosIn(recv[s][i], accepted) < PosIn(recv[s][j], accepted)

\* C9's case: a buffered Mux whose sink has received two values that were
\* accepted in the opposite order of their Submit calls.
C9_Witness ==
  \E s \in Sinks :
    /\ inBufSize > 0
    /\ Len(recv[s]) >= 2
    /\ recv[s][1].n > recv[s][2].n

\* Whether the range loop for the i-th value run() took is over.
LoopOver(i) == i < Len(regAtTake) \/ hubPc # "deliver"

\* C10: a value run() took from input reaches every sink that was in
\* outputs at that moment exactly once when its range loop is over, and no
\* sink ever holds a value twice.
C10_ExactlyOncePerRegisteredSink ==
  /\ \A i \in 1..Len(regAtTake) :
       LoopOver(i) =>
         \A s \in regAtTake[i].outs : Count(regAtTake[i].v, recv[s]) = 1
  /\ \A s \in Sinks : \A i \in 1..Len(recv[s]) : Count(recv[s][i], recv[s]) = 1

\* C10's case: a value taken while both sinks were registered, delivered.
C10_Witness ==
  \E i \in 1..Len(regAtTake) :
    /\ LoopOver(i)
    /\ regAtTake[i].outs = Sinks
    /\ \A s \in Sinks : Delivered(s, regAtTake[i].v)

\* C11: Subscribe returns only after run() has recorded the sink: a sink
\* whose Subscribe has returned and whose cancel func has not been called is
\* in outputs as long as run() lives, so it is among the targets of every
\* value run() takes from then on (every value accepted after the return is
\* taken after it), and it has received the value when the range loop for
\* it is over.
C11_SubscribeReturnsAfterRecording ==
  /\ [](\A s \in Sinks :
          (subSt[s] = "subscribed" /\ hubPc # "exited") => s \in outputs)
  /\ [][\A s \in Sinks :
          (subSt[s] = "subscribed" /\ Len(regAtTake') = Len(regAtTake) + 1)
            => s \in regAtTake'[Len(regAtTake')].outs]_vars
  /\ [](\A k \in 1..Len(regAtTake) : \A s \in regAtTake[k].outs :
          LoopOver(k) => Delivered(s, regAtTake[k].v))

\* C11's case: a sink whose Subscribe returned between two values: it was
\* not a target of the earlier one, and it has received the later one.
C11_Witness ==
  \E s \in Sinks : \E k \in 2..Len(regAtTake) :
    /\ subSt[s] = "subscribed"
    /\ s \notin regAtTake[k - 1].outs
    /\ ~Delivered(s, regAtTake[k - 1].v)
    /\ s \in regAtTake[k].outs
    /\ Delivered(s, regAtTake[k].v)

\* C12: once the cancel func has returned, the sink is closed and out of
\* outputs, and from then on it receives nothing (so nothing submitted
\* afterwards either).
C12_CancelledSinkClosedAndSilent ==
  /\ [](\A s \in Sinks :
          subSt[s] = "cancelled" => (sinkClosed[s] /\ s \notin outputs))
  /\ [][\A s \in Sinks : subSt[s] = "cancelled" => recv'[s] = recv[s]]_vars

\* C12's case: a sink that received a value, was cancelled, and was no
\* target of a later value, which the other sink has received.
C12_Witness ==
  \E s, t \in Sinks : \E j, k \in 1..Len(regAtTake) :
    /\ subSt[s] = "cancelled"
    /\ j < k
    /\ s \in regAtTake[j].outs /\ Delivered(s, regAtTake[j].v)
    /\ s \notin regAtTake[k].outs /\ ~Delivered(s, regAtTake[k].v)
    /\ t \in regAtTake[k].outs /\ Delivered(t, regAtTake[k].v)

\* C13: once Close has been called the hub takes no new value: no sink
\* ever holds a value whose Submit was called after Close.
C13_NothingDeliveredAfterClose ==
  closeAt > 0 =>
    \A s \in Sinks : \A i \in 1..Len(recv[s]) : recv[s][i].n < closeAt

\* ------------------------------------------------- Discovery (udev.go)

\* An Init slice that is made but never filled.
InitDevicesEmpty(st) == {}

\* Init{init} (udev.go:355-359): the slice of every device of the table.
InitDevices(st) == {Dev(id, st[id]) : id \in {i \in Ids : st[i] # Absent}}

InitEvent(st) == [k |-> "Init", devs |-> InitDevices(st)]
AddedEvent(dev) == [k |-> "Added", dev |-> dev]
RemovedEvent(dev) == [k |-> "Removed", dev |-> dev]

\* A lookup that finds nothing.
LookupNone(st, id) == NilDev

\* d.state[id] (udev.go:340): the device, or nil for an identity not there.
Lookup(st, id) == IF st[id] = Absent THEN NilDev ELSE Dev(id, st[id])

\* The monitor is in its select (udev.go:326) and not inside d.mux.Submit.
MonAtSelect == ~crashed /\ monPc = "select" /\ muxSend[Mon] = NoVal

\* udev.go:330-337: an add/online event: the device is stored and Added is
\* handled to the Mux.
MonDevAdd(id) ==
  /\ MonAtSelect
  /\ evCount < MaxEvents
  /\ evCount' = evCount + 1
  /\ state' = [state EXCEPT ![id] = evCount + 2]
  /\ SubmitCall(Mon, AddedEvent(Dev(id, evCount + 2)))
  /\ UNCHANGED <<requests, monPc, monSink, monInit, dsubSt, subTable, subAt>>
  /\ UNCHANGED <<input, inputClosed, register, regClosed, unregister, outputs,
                 inBufSize, hubPc, hubCur, hubTarget, hubPending, hubArg,
                 subSt, sinkClosed, reads, recv, crashed, accepted, regAtTake,
                 timedOut>>

\* udev.go:338-342: a remove/offline event: the entry is read, deleted, and
\* Removed is handled with what was read.
MonDevRemove(id) ==
  /\ MonAtSelect
  /\ evCount < MaxEvents
  /\ evCount' = evCount + 1
  /\ state' = [state EXCEPT ![id] = Absent]
  /\ SubmitCall(Mon, RemovedEvent(Lookup(state, id)))
  /\ UNCHANGED <<requests, monPc, monSink, monInit, dsubSt, subTable, subAt>>
  /\ UNCHANGED <<input, inputClosed, register, regClosed, unregister, outputs,
                 inBufSize, hubPc, hubCur, hubTarget, hubPending, hubArg,
                 subSt, sinkClosed, reads, recv, crashed, accepted, regAtTake,
                 timedOut>>

\* Discovery.Subscribe (udev.go:384-390) is entered: the caller blocks in
\* `d.requests <- await`.
DSubscribe(s) ==
  /\ ~crashed
  /\ monPc # "none"
  /\ dsubSt[s] = "none"
  /\ dsubSt' = [dsubSt EXCEPT ![s] = "requesting"]
  /\ requests' = requests \cup {[t |-> "newSub", sink |-> s]}
  /\ UNCHANGED <<state, monPc, monSink, monInit, evCount, subTable, subAt>>
  /\ UNCHANGED muxVars

\* udev.go:344,354-358: the monitor receives a newSub and builds the Init
\* event from the table.
MonNewSub(s) ==
  /\ MonAtSelect
  /\ [t |-> "newSub", sink |-> s] \in requests
  /\ requests' = requests \ {[t |-> "newSub", sink |-> s]}
  /\ dsubSt' = [dsubSt EXCEPT ![s] = "waiting"]
  /\ monPc' = "init"
  /\ monSink' = s
  /\ monInit' = InitEvent(state)
  /\ subTable' = [subTable EXCEPT ![s] = state]
  /\ subAt' = [subAt EXCEPT ![s] = Len(accepted)]
  /\ UNCHANGED <<state, evCount>>
  /\ UNCHANGED muxVars

\* A newSub handler that sends Init, leaves the registration to the Mux
\* and replies without waiting for it.
MonSendInitAsync ==
  /\ ~crashed
  /\ monPc = "init"
  /\ SinkCanTake(monSink)
  /\ recv' = [recv EXCEPT ![monSink] = SinkTake(@, monInit)]
  /\ SubscribeCall(monSink)
  /\ monPc' = "select"
  /\ monInit' = NoVal
  /\ monSink' = NoSink
  /\ dsubSt' = [dsubSt EXCEPT ![monSink] = "done"]
  /\ UNCHANGED <<state, requests, evCount, subTable, subAt>>
  /\ UNCHANGED <<input, inputClosed, regClosed, unregister, outputs,
                 inBufSize, hubPc, hubCur, hubTarget, hubPending, hubArg,
                 muxSend, sndRes, sinkClosed, reads, accepted, regAtTake,
                 timedOut>>

\* udev.go:359-363: r.sink.Submit(Init{init}) returns once the sink's reader
\* has received it, and the monitor enters d.mux.Subscribe(r.sink).
MonSendInit ==
  /\ ~crashed
  /\ monPc = "init"
  /\ SinkCanTake(monSink)
  /\ recv' = [recv EXCEPT ![monSink] = SinkTake(@, monInit)]
  /\ SubscribeCall(monSink)
  /\ monPc' = "subscribe"
  /\ monInit' = NoVal
  /\ UNCHANGED <<state, requests, monSink, dsubSt, evCount, subTable, subAt>>
  /\ UNCHANGED <<input, inputClosed, regClosed, unregister, outputs,
                 inBufSize, hubPc, hubCur, hubTarget, hubPending, hubArg,
                 muxSend, sndRes, sinkClosed, reads, accepted, regAtTake,
                 timedOut>>

\* udev.go:363-364: d.mux.Subscribe has returned the cancel func and the
\* monitor replies with it; Discovery.Subscribe returns.
MonReplySub ==
  /\ ~crashed
  /\ monPc = "subscribe"
  /\ subSt[monSink] = "subscribed"
  /\ dsubSt' = [dsubSt EXCEPT ![monSink] = "done"]
  /\ monPc' = "select"
  /\ monSink' = NoSink
  /\ UNCHANGED <<state, requests, monInit, evCount, subTable, subAt>>
  /\ UNCHANGED muxVars

\* The subscriber calls the cancel func that Discovery.Subscribe returned.
DCancel(s) ==
  /\ dsubSt[s] = "done"
  /\ CancelCall(s)
  /\ UNCHANGED discVars
  /\ UNCHANGED <<input, inputClosed, register, regClosed, outputs,
                 inBufSize, hubPc, hubCur, hubTarget, hubPending, hubArg,
                 muxSend, sndRes, sinkClosed, reads, recv, crashed, accepted,
                 regAtTake, timedOut>>

\* NewDiscovery (udev.go:205-240): the enumerated devices fill the table,
\* the Mux is made without a buffer, and the monitor goroutine starts.
InitDisc ==
  /\ MuxInit({Mon}, {0})
  /\ reads \in [Sinks -> BOOLEAN]
  /\ state \in [Ids -> {Absent, 1}]
  /\ requests = {}
  /\ monPc = "select"
  /\ monSink = NoSink
  /\ monInit = NoVal
  /\ dsubSt = [s \in Sinks |-> "none"]
  /\ evCount = 0
  /\ subTable = [s \in Sinks |-> [id \in Ids |-> Absent]]
  /\ subAt = [s \in Sinks |-> 0]
  /\ ClientIdle
  /\ PluginIdle
  /\ ResIdle

NextDisc ==
  \/ HubTakeDirect(Mon) /\ UNCHANGED <<discVars, notDisc>>
  \/ HubDeliver /\ UNCHANGED <<discVars, notDisc>>
  \/ \E s \in Sinks : HubRegister(s) /\ UNCHANGED <<discVars, notDisc>>
  \/ \E s \in Sinks : HubUnregister(s) /\ UNCHANGED <<discVars, notDisc>>
  \/ HubReply /\ UNCHANGED <<discVars, notDisc>>
  \/ SubmitTimeout(Mon) /\ UNCHANGED <<discVars, notDisc>>
  \/ \E id \in Ids : MonDevAdd(id) /\ UNCHANGED notDisc
  \/ \E id \in Ids : MonDevRemove(id) /\ UNCHANGED notDisc
  \/ \E s \in Sinks : DSubscribe(s) /\ UNCHANGED notDisc
  \/ \E s \in Sinks : MonNewSub(s) /\ UNCHANGED notDisc
  \/ MonSendInit /\ UNCHANGED notDisc
  \/ MonReplySub /\ UNCHANGED notDisc
  \/ \E s \in Sinks : DCancel(s) /\ UNCHANGED notDisc

SpecDisc == InitDisc /\ [][NextDisc]_vars

\* -------------------------------------------------- Discovery's claims

\* The devices of a table, as a set.
TableDevices(st) ==
  {d \in [id : Ids, ver : 1..(MaxEvents + 1)] : st[d.id] = d.ver}

\* C1: a sink passed to Discovery.Subscribe receives exactly one Init, as
\* its first event, holding the table as it was when the monitor handled
\* the subscription; when Subscribe has returned the Init has been received.
C1_OneInitFirstWithTable ==
  \A s \in Sinks :
    /\ recv[s] # <<>> =>
         /\ recv[s][1].k = "Init"
         /\ recv[s][1].devs = TableDevices(subTable[s])
    /\ \A i \in 2..Len(recv[s]) : recv[s][i].k # "Init"
    /\ dsubSt[s] = "done" => recv[s] # <<>>

\* C1's case: a subscription handled after an event had been published,
\* with a device in the table, and an event received after the Init.
C1_Witness ==
  \E s \in Sinks :
    /\ dsubSt[s] = "done"
    /\ subAt[s] > 0
    /\ recv[s][1].devs # {}
    /\ Len(recv[s]) >= 2

\* What a subscriber rebuilds from its events: Init is the table, Added an
\* insert by identity, Removed a delete by identity (a Removed without a
\* device names no identity and changes nothing).
RECURSIVE Replay(_)
Replay(log) ==
  IF log = <<>> THEN [id \in Ids |-> Absent]
  ELSE LET e == log[Len(log)]
           t == Replay(SubSeq(log, 1, Len(log) - 1))
       IN  CASE e.k = "Init" ->
                  [id \in Ids |->
                     IF \E d \in e.devs : d.id = id
                       THEN (CHOOSE d \in e.devs : d.id = id).ver
                       ELSE Absent]
             [] e.k = "Added" -> [t EXCEPT ![e.dev.id] = e.dev.ver]
             [] e.k = "Removed" ->
                  IF e.dev = NilDev THEN t
                  ELSE [t EXCEPT ![e.dev.id] = Absent]

\* Every event the monitor published has been handed to every sink.
Delivered2All == muxSend[Mon] = NoVal /\ hubPc = "select"

\* C2: for a subscriber whose Subscribe has returned, with no Submit timed
\* out and every published event delivered, the events after its Init are
\* exactly those published since its subscription was handled, in order
\* (none lost, none from before), and replaying them yields the table.
C2_ReplayYieldsTable ==
  \A s \in Sinks :
    ( /\ dsubSt[s] = "done"
      /\ subSt[s] = "subscribed"
      /\ ~timedOut
      /\ Delivered2All )
    => /\ Tail(recv[s]) = SubSeq(accepted, subAt[s] + 1, Len(accepted))
       /\ Replay(recv[s]) = state

\* C2's case: a subscriber that got its Init from a non-empty table, then an
\* Added and a Removed, while another subscriber was registered too.
C2_Witness ==
  \E s \in Sinks :
    /\ dsubSt[s] = "done" /\ subSt[s] = "subscribed"
    /\ ~timedOut /\ Delivered2All
    /\ outputs = Sinks
    /\ recv[s][1].devs # {}
    /\ \E i, j \in 2..Len(recv[s]) :
         recv[s][i].k = "Added" /\ recv[s][j].k = "Removed"

\* ------------------ Resource (partition.go:149-277, resource.go, scatter.go)

\* An Instance the mapper makes of a device: its identity, the version of
\* the device it holds, what its own Health() probe reports, and the
\* healthInstance wrappers around it (outermost last).
Inst(id, ver, probe) == [id |-> id, ver |-> ver, probe |-> probe, wraps |-> <<>>]

\* healthInstance.Health (resource.go:51-56, partition.go:199-204) over the
\* wrappers, down to the instance's own probe (partition.go:27-29,
\* mux.go:285-290).
RECURSIVE InstanceHealth(_)
InstanceHealth(i) ==
  IF i.wraps = <<>> THEN i.probe
  ELSE IF i.wraps[Len(i.wraps)] = "Healthy"
         THEN InstanceHealth([i EXCEPT !.wraps = SubSeq(@, 1, Len(@) - 1)])
         ELSE i.wraps[Len(i.wraps)]

\* &healthInstance{Instance: i, health: h} (resource.go:111-114).
Wrap(i, h) == [i EXCEPT !.wraps = Append(@, h)]

HealthEvent(insts, h) == [k |-> "health", instances |-> insts, health |-> h]

\* partition.go:260-262: every instance of the event is stored under its
\* identity; ev.Health is not read.
RECURSIVE Upsert(_, _)
Upsert(tbl, insts) ==
  IF insts = <<>> THEN tbl
  ELSE Upsert([tbl EXCEPT ![Head(insts).id] = Head(insts)], Tail(insts))

\* partition.go:254-257: the slice of the table's instances (in map order,
\* so as a set).
Snapshot(tbl) == {tbl[id] : id \in {i \in Ids : tbl[i] # NoInst}}

\* instanceCh <- ev.Instances (partition.go:263).
Batch(insts) == {insts[i] : i \in 1..Len(insts)}

\* part_004:86-93: the wire devices of a batch.
WireDevices(batch) == {[id |-> i.id, health |-> InstanceHealth(i)] : i \in batch}

\* resource.Submit (partition.go:247-250) is entered by the Scatter
\* goroutine, which blocks in `r.healthCh <- ev`.
ResSubmitCall(ev) ==
  /\ ~crashed
  /\ hcSend = NoVal
  /\ nDeltas < MaxDeltas
  /\ nDeltas' = nDeltas + 1
  /\ hcSend' = ev
  /\ handled' = Append(handled, ev)

\* Scatter.added (scatter.go:53-67) for a device of the Resource's template:
\* the mapper's instances are handled with verdict Healthy.
ScatterAdded(id, probe) ==
  /\ ResSubmitCall(HealthEvent(<<Inst(id, nDeltas + 2, probe)>>, "Healthy"))
  /\ lastInst' = [lastInst EXCEPT ![id] = Inst(id, nDeltas + 2, probe)]
  /\ UNCHANGED <<instances, runPc, runEv, instanceCh, consOpen, got, out,
                 mergeLog, startAt, lastVerdict>>

\* Scatter.removed (scatter.go:105-118) for a device added before: the
\* mapper's instances of that device are handled with verdict Unhealthy.
ScatterRemoved(id) ==
  /\ lastInst[id] # NoInst
  /\ ResSubmitCall(HealthEvent(<<lastInst[id]>>, "Unhealthy"))
  /\ UNCHANGED <<instances, lastInst, runPc, runEv, instanceCh, consOpen,
                 got, out, mergeLog, startAt, lastVerdict>>

\* ListAndWatch (partition.go:267-273, resource.go:119-125): a channel of
\* capacity 1 is made and a run goroutine started; the plugin's handler
\* ranges over the channel (part_004:85).
LawCall(c) ==
  /\ ~crashed
  /\ runPc[c] = "none"
  /\ runPc' = [runPc EXCEPT ![c] = "first"]
  /\ consOpen' = [consOpen EXCEPT ![c] = TRUE]
  /\ UNCHANGED <<instances, hcSend, lastInst, nDeltas, runEv, instanceCh,
                 got, out, mergeLog, startAt, lastVerdict, handled>>

\* run (partition.go:253-258, resource.go:108-109): the first batch, the
\* whole table, goes into the still empty channel.
RunFirst(c) ==
  /\ ~crashed
  /\ runPc[c] = "first"
  /\ instanceCh' = [instanceCh EXCEPT ![c] = Append(@, Snapshot(instances))]
  /\ out' = [out EXCEPT ![c] = Append(@, Snapshot(instances))]
  /\ startAt' = [startAt EXCEPT ![c] = Len(mergeLog)]
  /\ runPc' = [runPc EXCEPT ![c] = "recv"]
  /\ UNCHANGED <<instances, hcSend, lastInst, nDeltas, runEv, consOpen, got,
                 mergeLog, lastVerdict, handled>>

\* `for ev := range r.healthCh` (partition.go:259, resource.go:110): this
\* goroutine receives the event a Submit is sending; Submit returns nil.
RunRecv(c) ==
  /\ ~crashed
  /\ runPc[c] = "recv"
  /\ hcSend # NoVal
  /\ runEv' = [runEv EXCEPT ![c] = hcSend]
  /\ hcSend' = NoVal
  /\ runPc' = [runPc EXCEPT ![c] = "merge"]
  /\ UNCHANGED <<instances, lastInst, nDeltas, instanceCh, consOpen, got,
                 out, mergeLog, startAt, lastVerdict, handled>>

\* What a merge records besides the table.
MergeNotes(c) ==
  /\ mergeLog' = Append(mergeLog, runEv[c])
  /\ lastVerdict' = [id \in Ids |->
                       IF \E i \in Batch(runEv[c].instances) : i.id = id
                         THEN runEv[c].health ELSE lastVerdict[id]]
  /\ runPc' = [runPc EXCEPT ![c] = "emit"]
  /\ UNCHANGED <<hcSend, lastInst, nDeltas, runEv, instanceCh, consOpen, got,
                 out, startAt, handled>>

\* resource.run (partition.go:260-262): the event's instances are written
\* into the table.
RunMerge(c) ==
  /\ ~crashed
  /\ runPc[c] = "merge"
  /\ instances' = Upsert(instances, runEv[c].instances)
  /\ MergeNotes(c)

\* resource.run (partition.go:263): the event's instances go into
\* instanceCh once the channel has room.
RunEmit(c) ==
  /\ ~crashed
  /\ runPc[c] = "emit"
  /\ Len(instanceCh[c]) < 1
  /\ instanceCh' = [instanceCh EXCEPT ![c] = Append(@, Batch(runEv[c].instances))]
  /\ out' = [out EXCEPT ![c] = Append(@, Batch(runEv[c].instances))]
  /\ runEv' = [runEv EXCEPT ![c] = NoVal]
  /\ runPc' = [runPc EXCEPT ![c] = "recv"]
  /\ UNCHANGED <<instances, hcSend, lastInst, nDeltas, consOpen, got,
                 mergeLog, startAt, lastVerdict, handled>>

\* Two run goroutines write the map r.instances at once (partition.go:261,
\* no lock): a data race, which the Go runtime may end with the fatal error
\* "concurrent map writes".
RunRace ==
  /\ ~crashed
  /\ \E c1, c2 \in Calls : c1 # c2 /\ runPc[c1] = "merge" /\ runPc[c2] = "merge"
  /\ crashed' = TRUE
  /\ UNCHANGED <<input, inputClosed, register, regClosed, unregister, outputs,
                 inBufSize, hubPc, hubCur, hubTarget, hubPending, hubArg,
                 muxSend, sndRes, subSt, sinkClosed, reads, recv, accepted,
                 regAtTake, timedOut>>
  /\ UNCHANGED <<clientVars, discVars, resVars, plugVars>>

\* plugin.ListAndWatch (part_004:85-98): a batch is received, turned into
\* wire devices and sent on the stream.
ConsRecv(c) ==
  /\ ~crashed
  /\ consOpen[c]
  /\ instanceCh[c] # <<>>
  /\ got' = [got EXCEPT ![c] = Append(@, WireDevices(Head(instanceCh[c])))]
  /\ instanceCh' = [instanceCh EXCEPT ![c] = Tail(@)]
  /\ UNCHANGED <<instances, hcSend, lastInst, nDeltas, runPc, runEv,
                 consOpen, out, mergeLog, startAt, lastVerdict, handled>>

\* plugin.ListAndWatch (part_004:85, 95-98): a batch is received, stream.Send
\* fails (the kubelet has gone, or the stream's context is cancelled) and
\* the handler returns; nothing reads instanceCh any more.
ConsStop(c) ==
  /\ ~crashed
  /\ consOpen[c]
  /\ instanceCh[c] # <<>>
  /\ instanceCh' = [instanceCh EXCEPT ![c] = Tail(@)]
  /\ consOpen' = [consOpen EXCEPT ![c] = FALSE]
  /\ UNCHANGED <<instances, hcSend, lastInst, nDeltas, runPc, runEv, got,
                 out, mergeLog, startAt, lastVerdict, handled>>

\* A Resource holding the one instance of device "a", no ListAndWatch call
\* made yet.
ResStart ==
  /\ MuxInit({Mon}, {0})
  /\ reads = [s \in Sinks |-> FALSE]
  /\ DiscIdle
  /\ ClientIdle
  /\ PluginIdle
  /\ \E probe \in Healths :
       /\ instances = [id \in Ids |-> IF id = "a" THEN Inst("a", 1, probe) ELSE NoInst]
       /\ lastInst = [id \in Ids |-> IF id = "a" THEN Inst("a", 1, probe) ELSE NoInst]
       /\ handled = <<HealthEvent(<<Inst("a", 1, probe)>>, "Healthy")>>
  /\ hcSend = NoVal
  /\ nDeltas = 0
  /\ runPc = [c \in Calls |-> "none"]
  /\ runEv = [c \in Calls |-> NoVal]
  /\ instanceCh = [c \in Calls |-> <<>>]
  /\ consOpen = [c \in Calls |-> FALSE]
  /\ got = [c \in Calls |-> <<>>]
  /\ out = [c \in Calls |-> <<>>]
  /\ mergeLog = <<>>
  /\ startAt = [c \in Calls |-> 0]
  /\ lastVerdict = [id \in Ids |-> "none"]

\* Scatter.added (scatter.go:70-85): the Resource of a template is made of
\* its first device's instances; the kubelet may call ListAndWatch from then.
InitRes == ResStart

NextRes ==
  \/ \E id \in Ids, probe \in Healths : ScatterAdded(id, probe) /\ UNCHANGED notRes
  \/ \E id \in Ids : ScatterRemoved(id) /\ UNCHANGED notRes
  \/ \E c \in Calls : LawCall(c) /\ UNCHANGED notRes
  \/ \E c \in Calls : RunFirst(c) /\ UNCHANGED notRes
  \/ \E c \in Calls : RunRecv(c) /\ UNCHANGED notRes
  \/ \E c \in Calls : RunMerge(c) /\ UNCHANGED notRes
  \/ \E c \in Calls : RunEmit(c) /\ UNCHANGED notRes
  \/ \E c \in Calls : ConsRecv(c) /\ UNCHANGED notRes
  \/ \E c \in Calls : ConsStop(c) /\ UNCHANGED notRes
  \/ RunRace

SpecRes == InitRes /\ [][NextRes]_vars

\* ------------------ singletonResource (resource.go:86-129)

\* A health update for the one instance is given to Submit
\* (resource.go:102-105), which blocks in `r.healthCh <- ev`.
SingleSubmit(h) ==
  /\ ResSubmitCall(HealthEvent(<<lastInst["a"]>>, h))
  /\ UNCHANGED <<instances, lastInst, runPc, runEv, instanceCh, consOpen,
                 got, out, mergeLog, startAt, lastVerdict>>

\* singletonResource.run (resource.go:111-114): r.instance is wrapped in a
\* new healthInstance carrying the event's verdict.
RunMergeSingle(c) ==
  /\ ~crashed
  /\ runPc[c] = "merge"
  /\ instances' = [instances EXCEPT !["a"] = Wrap(@, runEv[c].health)]
  /\ MergeNotes(c)

\* singletonResource.run (resource.go:115): []Instance{r.instance} goes into
\* instanceCh once the channel has room.
RunEmitSingle(c) ==
  /\ ~crashed
  /\ runPc[c] = "emit"
  /\ Len(instanceCh[c]) < 1
  /\ instanceCh' = [instanceCh EXCEPT ![c] = Append(@, Snapshot(instances))]
  /\ out' = [out EXCEPT ![c] = Append(@, Snapshot(instances))]
  /\ runEv' = [runEv EXCEPT ![c] = NoVal]
  /\ runPc' = [runPc EXCEPT ![c] = "recv"]
  /\ UNCHANGED <<instances, hcSend, lastInst, nDeltas, consOpen, got,
                 mergeLog, startAt, lastVerdict, handled>>

InitSingle == ResStart

NextSingle ==
  \/ \E h \in Healths : SingleSubmit(h) /\ UNCHANGED notRes
  \/ \E c \in Calls : LawCall(c) /\ UNCHANGED notRes
  \/ \E c \in Calls : RunFirst(c) /\ UNCHANGED notRes
  \/ \E c \in Calls : RunRecv(c) /\ UNCHANGED notRes
  \/ \E c \in Calls : RunMergeSingle(c) /\ UNCHANGED notRes
  \/ \E c \in Calls : RunEmitSingle(c) /\ UNCHANGED notRes
  \/ \E c \in Calls : ConsRecv(c) /\ UNCHANGED notRes
  \/ \E c \in Calls : ConsStop(c) /\ UNCHANGED notRes

SpecSingle == InitSingle /\ [][NextSingle]_vars

\* ------------------ Resource: health pinning, the table, the batches

\* A HealthEvent with verdict Healthy naming id has been submitted and is
\* not merged yet.
HealthyPending(id) ==
  \E ev \in {hcSend} \cup {runEv[c] : c \in {r \in Calls : runPc[r] = "merge"}} :
    /\ ev # NoVal
    /\ ev.health = "Healthy"
    /\ \E i \in Batch(ev.instances) : i.id = id

\* C3: once a HealthEvent with verdict Unhealthy naming an identity has
\* been merged, and no Healthy one for it has been submitted since, the
\* health Instances() reports for that identity is Unhealthy, whatever the
\* instance's own probe says.
C3_UnhealthyVerdictPinsHealth ==
  \A id \in Ids :
    (lastVerdict[id] = "Unhealthy" /\ instances[id] # NoInst /\ ~HealthyPending(id))
      => InstanceHealth(instances[id]) = "Unhealthy"

\* C4: once a HealthEvent with verdict Healthy has been merged for an
\* identity, after an Unhealthy one pinned it, the identity's reported health
\* is what its own probe reports.
C4_HealthyVerdictReleasesPin ==
  \A id \in Ids :
    (/\ lastVerdict[id] = "Healthy"
     /\ instances[id] # NoInst
     /\ \E k \in 1..Len(mergeLog) : mergeLog[k].health = "Unhealthy")
      => InstanceHealth(instances[id]) = instances[id].probe

\* The fold of the events' instances, upsert by identity, from the empty
\* table.
RECURSIVE Fold(_, _)
Fold(tbl, evs) ==
  IF evs = <<>> THEN tbl
  ELSE Fold(Upsert(tbl, Head(evs).instances), Tail(evs))

AllProcessed ==
  /\ hcSend = NoVal
  /\ \A c \in Calls : runPc[c] # "merge"

\* C5: when every Added/Removed event of the template has been processed,
\* the instance table is the fold, upsert by identity, of the events'
\* mapped instances in the order the events came.
C5_TableIsFoldOfEvents ==
  AllProcessed => instances = Fold([id \in Ids |-> NoInst], handled)

IsPrefix(s, t) == Len(s) <= Len(t) /\ SubSeq(t, 1, Len(s)) = s

\* The batches of the HealthEvents merged after position n, in merge order.
DeltasAfter(n) == [k \in 1..(Len(mergeLog) - n) |-> Batch(mergeLog[n + k].instances)]

\* C6: what a ListAndWatch call has yielded after its first batch is, in
\* merge order and with none skipped, the deltas merged since that batch
\* was taken.
C6_EveryCallYieldsEveryDelta ==
  \A c \in Calls :
    out[c] # <<>> => IsPrefix(Tail(out[c]), DeltasAfter(startAt[c]))

\* ------------------------------------- Registry (udev.go:411-556, part_004)

\* A map store that keeps every pair it is given.
StoreAlways(map, n, g) ==
  [map |-> map \cup {[name |-> n, gen |-> g]}, loaded |-> FALSE]

\* sync.Map.LoadOrStore (udev.go:546): the pair is stored unless the name
\* has one already.
LoadOrStore(map, n, g) ==
  IF \E e \in map : e.name = n
    THEN [map |-> map, loaded |-> TRUE]
    ELSE [map |-> map \cup {[name |-> n, gen |-> g]}, loaded |-> FALSE]

\* newPlugin (part_004:27-61): a socket file left at the path is removed, a
\* new listener is bound there and a server started on it.
NewPlugin(n) ==
  /\ plugs' = Append(plugs, [name |-> n, st |-> "serving"])
  /\ sockFile' = [sockFile EXCEPT ![SocketPath(n)] = Len(plugs) + 1]

\* What a call of newPlugin and register meets: "ok" when both work,
\* "nolisten" when net.Listen fails (part_004:43-47), "noreg" when the dial
\* of the kubelet or its Register call fails (udev.go:421-440).
AddEnvs == {"ok", "nolisten", "noreg"}

\* What Registry.Add returns (udev.go:540-555).
AddResult(n, env) ==
  IF env = "nolisten" THEN "bindfail"
  ELSE IF \E e \in plugins : e.name = n THEN "exists"
  ELSE IF env = "noreg" THEN "regfail"
  ELSE "ok"

\* Registry.Add (udev.go:539-556): the plugin is made first, then stored
\* unless the name is taken, then registered with the kubelet. When
\* net.Listen fails newPlugin has already removed the socket file that was
\* at the path (part_004:35-38) and Add returns before it stores; when
\* register fails what LoadOrStore stored stays in r.plugins.
AddCall(n, env) ==
  /\ addLog' = Append(addLog, [name |-> n,
                               had |-> \E e \in plugins : e.name = n,
                               res |-> AddResult(n, env)])
  /\ IF env = "nolisten"
       THEN /\ sockFile' = [sockFile EXCEPT ![SocketPath(n)] = 0]
            /\ UNCHANGED <<plugs, plugins, kubeReg>>
       ELSE /\ NewPlugin(n)
            /\ LET r == LoadOrStore(plugins, n, Len(plugs) + 1)
               IN  /\ plugins' = r.map
                   /\ kubeReg' = IF r.loaded \/ env = "noreg"
                                   THEN kubeReg ELSE kubeReg \cup {n}
  /\ envFailed' = (envFailed \/ env # "ok")
  /\ UNCHANGED <<fsPending, restarts, hupPc, hupTodo, hupCur>>

\* Some goroutine calls registry.Add with a Resource of name n.
RegAdd(n) ==
  /\ ~crashed
  /\ Len(addLog) < MaxAdds
  /\ \E env \in AddEnvs : AddCall(n, env)

\* The kubelet restarts: it empties its plugin directory, forgets every
\* registration and makes its socket anew, which the watcher reports as a
\* create event (udev.go:452-454, 490).
KubeletRestart ==
  /\ ~crashed
  /\ restarts < MaxRestarts
  /\ hupPc = "idle"
  /\ ~fsPending
  /\ restarts' = restarts + 1
  /\ sockFile' = [f \in SockPaths |-> 0]
  /\ kubeReg' = {}
  /\ fsPending' = TRUE
  /\ UNCHANGED <<plugins, plugs, hupPc, hupTodo, hupCur, addLog, envFailed>>

\* udev.go:499-502, 456: the registry goroutine receives the create event
\* and hup starts its Range over the stored plugins.
HupStart ==
  /\ ~crashed
  /\ hupPc = "idle"
  /\ fsPending
  /\ fsPending' = FALSE
  /\ hupTodo' = {e.name : e \in plugins}
  /\ hupPc' = IF plugins = {} THEN "idle" ELSE "range"
  /\ UNCHANGED <<plugins, plugs, sockFile, kubeReg, restarts, hupCur, addLog,
                 envFailed>>

\* hup (udev.go:457-458) with plugin.stop (part_004:63-68): the stored
\* plugin's context is cancelled; its goroutine shuts it down on its own.
HupStop(n) ==
  /\ ~crashed
  /\ hupPc = "range"
  /\ hupCur = NoName
  /\ n \in hupTodo
  /\ hupTodo' = hupTodo \ {n}
  /\ hupCur' = n
  /\ LET g == (CHOOSE e \in plugins : e.name = n).gen
     IN  plugs' = [plugs EXCEPT ![g].st = IF @ = "serving" THEN "cancelled" ELSE @]
  /\ UNCHANGED <<plugins, sockFile, kubeReg, fsPending, restarts, hupPc, addLog,
                 envFailed>>

\* hup (udev.go:459-467): a new plugin is made for the resource and
\* registered with the kubelet; the map keeps the plugin it held. A
\* register that fails is logged and Range goes on.
HupRebind(env) ==
  /\ ~crashed
  /\ hupPc = "range"
  /\ hupCur # NoName
  /\ NewPlugin(hupCur)
  /\ kubeReg' = IF env = "noreg" THEN kubeReg ELSE kubeReg \cup {hupCur}
  /\ envFailed' = (envFailed \/ env # "ok")
  /\ hupCur' = NoName
  /\ hupPc' = IF hupTodo = {} THEN "idle" ELSE "range"
  /\ UNCHANGED <<plugins, fsPending, restarts, hupTodo, addLog>>

\* hup (udev.go:459-462): newPlugin fails, having removed the socket file
\* at the path, and returns a nil plugin, which the same variable now
\* holds; the log call reads plugin.resource of it and the goroutine
\* panics.
HupPanic ==
  /\ ~crashed
  /\ hupPc = "range"
  /\ hupCur # NoName
  /\ sockFile' = [sockFile EXCEPT ![SocketPath(hupCur)] = 0]
  /\ crashed' = TRUE
  /\ envFailed' = TRUE
  /\ UNCHANGED <<plugins, plugs, kubeReg, fsPending, restarts, hupPc, hupTodo,
                 hupCur, addLog>>
  /\ UNCHANGED <<input, inputClosed, register, regClosed, unregister, outputs,
                 inBufSize, hubPc, hubCur, hubTarget, hubPending, hubArg,
                 muxSend, sndRes, subSt, sinkClosed, reads, recv, accepted,
                 regAtTake, timedOut>>
  /\ UNCHANGED <<clientVars, discVars, resVars, scatVars, sliceVars,
                 allocVars, lifeVars, dreqVars, hzVars, fltVars, parVars>>

\* The goroutine of a cancelled plugin (part_004:52-58): s.Stop() closes
\* the listener, and closing a Unix listener unlinks its socket path,
\* whichever socket file is there by now.
PluginShutdown(g) ==
  /\ ~crashed
  /\ plugs[g].st = "cancelled"
  /\ plugs' = [plugs EXCEPT ![g].st = "stopped"]
  /\ sockFile' = [sockFile EXCEPT ![SocketPath(plugs[g].name)] = 0]
  /\ UNCHANGED <<plugins, kubeReg, fsPending, restarts, hupPc, hupTodo,
                 hupCur, addLog, envFailed>>

\* plugin.probe (part_004:164-191) dials the socket path of the resource's
\* name: with no socket file there, or one whose server has stopped, the
\* dial fails.
NoEndpoint(n) ==
  \/ sockFile[SocketPath(n)] = 0
  \/ plugs[sockFile[SocketPath(n)]].st = "stopped"

\* A health endpoint that reports success whatever the probes said.
HealthzAlwaysOk(unhealthy) == [status |-> 200, body |-> {}]

\* Registry.Healthz (udev.go:526-533): 200 with no unhealthy name, else 500
\* and one line per unhealthy name.
HealthzReply(unhealthy) ==
  IF unhealthy = {} THEN [status |-> 200, body |-> {}]
  ELSE [status |-> 500, body |-> unhealthy]

\* Registry.Healthz (udev.go:513-534): every stored plugin is probed; the
\* probe of a name without endpoint fails, any other may fail too (the
\* one second timeout).
RegHealthz(failed) ==
  /\ ~crashed
  /\ failed \subseteq {e.name : e \in plugins}
  /\ \A e \in plugins : NoEndpoint(e.name) => e.name \in failed
  /\ hzProbe' = failed
  /\ hzReply' = HealthzReply(failed)
  /\ UNCHANGED regVars

\* The resource names given to Add by callers other than a Scatter.
AddNames == {Name(tpl) : tpl \in {x \in Templates : x.domain = "a"}}

\* NewRegistry (udev.go:476-511): an empty registry whose goroutine waits
\* for watcher events.
InitReg ==
  /\ MuxInit({Mon}, {0})
  /\ reads = [s \in Sinks |-> FALSE]
  /\ DiscIdle
  /\ ClientIdle
  /\ ResIdle
  /\ RegIdle
  /\ ScatIdle
  /\ SliceIdle
  /\ AllocIdle
  /\ LifeIdle
  /\ DreqIdle
  /\ FltIdle
  /\ ParIdle
  /\ HzIdle

NextReg ==
  \/ \E n \in AddNames : RegAdd(n) /\ UNCHANGED notReg
  \/ KubeletRestart /\ UNCHANGED notReg
  \/ HupStart /\ UNCHANGED notReg
  \/ \E n \in AddNames : HupStop(n) /\ UNCHANGED notReg
  \/ \E env \in {"ok", "noreg"} : HupRebind(env) /\ UNCHANGED notReg
  \/ HupPanic
  \/ \E g \in 1..Len(plugs) : PluginShutdown(g) /\ UNCHANGED notReg
  \/ \E f \in SUBSET AddNames : RegHealthz(f) /\ UNCHANGED notHz

SpecReg == InitReg /\ [][NextReg]_vars

\* The kubelet can reach the resource: it holds a registration of the name,
\* and a socket file of a live server is at the name's endpoint.
Reachable(n) ==
  /\ n \in kubeReg
  /\ sockFile[SocketPath(n)] # 0
  /\ plugs[sockFile[SocketPath(n)]].st # "stopped"

\* hup is over and every cancelled plugin has shut down.
HupSettled ==
  /\ restarts > 0
  /\ ~fsPending
  /\ hupPc = "idle"
  /\ \A g \in 1..Len(plugs) : plugs[g].st # "cancelled"

\* C14: when hup has handled a kubelet restart and the old plugins have
\* shut down, and no net.Listen or registration has failed, every resource
\* name in the registry is reachable again on its endpoint.
C14_ReachableAfterRestart ==
  (HupSettled /\ ~envFailed) => \A e \in plugins : Reachable(e.name)

\* C15: an Add for a name that is in the registry returns an error, the
\* "already exists" error is returned for such a name only, and the
\* registry holds at most one plugin per resource name.
C15_AddRejectsDuplicateName ==
  /\ \A i \in 1..Len(addLog) :
       /\ addLog[i].had => addLog[i].res # "ok"
       /\ addLog[i].res = "exists" => addLog[i].had
  /\ \A e1, e2 \in plugins : e1.name = e2.name => e1 = e2

\* C15's case: an Add that was refused because its name was stored, while
\* another name was added too.
C15_Witness ==
  /\ \E i \in 1..Len(addLog) : addLog[i].res = "exists"
  /\ plugins # {}

\* ------------------------------------------ Scatter (scatter.go:10-145)

\* A device as the Scatter sees it: its identity and the template its
\* properties give (NoTpl when the templater returns nil).
ScDevices == [id : Ids, tpl : Templates \cup {NoTpl}]

\* s.templater(dev) (scatter.go:42, 94).
Templater(dev) == dev.tpl

\* s.mapper(dev) (scatter.go:53, 105): one instance named after the device.
Mapper(dev) == <<Inst(dev.id, 1, "Healthy")>>

\* scatter.go:37-51, 89-103: the template added() and removed() go on
\* with: none for a nil device or when the templater returns nil.
ScMatch(dev) == IF dev = NilDev THEN NoTpl ELSE Templater(dev)

EmptyTable == [id \in Ids |-> NoInst]

ScAtEvent(op) ==
  /\ ~crashed
  /\ scSub = NoVal
  /\ scTodo # <<>>
  /\ Head(scTodo).op = op

\* Scatter.run (scatter.go:133, 139-140): an Added event is received.
ScRecvAdded(dev) ==
  /\ ~crashed
  /\ scSub = NoVal
  /\ scTodo = <<>>
  /\ scEvents < MaxScEvents
  /\ scEvents' = scEvents + 1
  /\ scTodo' = <<[op |-> "add", dev |-> dev]>>
  /\ UNCHANGED <<routes, ress, scSub, lawOn, routedTo>>
  /\ UNCHANGED regVars

\* Scatter.run (scatter.go:133, 141-142): a Removed event is received; it
\* carries the device Discovery held under the identity (udev.go:340-342),
\* which the Scatter was given before, or no device when there was none.
ScRecvRemoved(dev) ==
  /\ ~crashed
  /\ \/ ScMatch(dev) = NoTpl
     \/ \E i \in 1..Len(routedTo) : routedTo[i].dev = dev
  /\ scSub = NoVal
  /\ scTodo = <<>>
  /\ scEvents < MaxScEvents
  /\ scEvents' = scEvents + 1
  /\ scTodo' = <<[op |-> "remove", dev |-> dev]>>
  /\ UNCHANGED <<routes, ress, scSub, lawOn, routedTo>>
  /\ UNCHANGED regVars

\* Scatter.added (scatter.go:37-51): no device, or no template for it.
ScAddedUnmatched ==
  /\ ScAtEvent("add")
  /\ ScMatch(Head(scTodo).dev) = NoTpl
  /\ scTodo' = Tail(scTodo)
  /\ UNCHANGED <<routes, ress, scSub, lawOn, scEvents, routedTo>>
  /\ UNCHANGED regVars

\* Scatter.added (scatter.go:61-68): the template has a Resource; the
\* device's instances are submitted to it with verdict Healthy.
ScAddedRoute ==
  /\ ScAtEvent("add")
  /\ LET dev == Head(scTodo).dev
     IN  /\ ScMatch(dev) # NoTpl
         /\ routes[Templater(dev)] # 0
         /\ scSub' = [res |-> routes[Templater(dev)],
                      ev |-> HealthEvent(Mapper(dev), "Healthy")]
         /\ routedTo' = Append(routedTo, [dev |-> dev, res |-> routes[Templater(dev)]])
  /\ scTodo' = Tail(scTodo)
  /\ UNCHANGED <<routes, ress, lawOn, scEvents>>
  /\ UNCHANGED regVars

\* A route store that does not look at what Add returned.
StoreRouteAlways(rts, tpl, r, ok) == [rts EXCEPT ![tpl] = r]

\* scatter.go:80-85: the route is stored unless registry.Add returned an
\* error.
StoreRoute(rts, tpl, r, ok) == IF ok THEN [rts EXCEPT ![tpl] = r] ELSE rts

\* Scatter.added (scatter.go:70-85): the template has no Resource; one is
\* made of the device's instances and given to registry.Add, and the route
\* is stored unless Add failed.
ScAddedNew ==
  /\ ScAtEvent("add")
  /\ \E env \in AddEnvs :
     LET dev == Head(scTodo).dev
         ok == AddResult(Name(Templater(dev)), env) = "ok"
     IN  /\ ScMatch(dev) # NoTpl
         /\ routes[Templater(dev)] = 0
         /\ ress' = Append(ress, [tpl |-> Templater(dev),
                                  tbl |-> Upsert(EmptyTable, Mapper(dev))])
         /\ AddCall(Name(Templater(dev)), env)
         /\ routes' = StoreRoute(routes, Templater(dev), Len(ress) + 1, ok)
         /\ routedTo' = Append(routedTo,
                          [dev |-> dev, res |-> IF ok THEN Len(ress) + 1 ELSE 0])
  /\ scTodo' = Tail(scTodo)
  /\ UNCHANGED <<scSub, lawOn, scEvents>>

\* Scatter.removed (scatter.go:89-103, 119-121): no device, no template for
\* it, or no Resource for the template: a log line and nothing else.
ScRemovedNoop ==
  /\ ScAtEvent("remove")
  /\ LET dev == Head(scTodo).dev
     IN  IF ScMatch(dev) = NoTpl THEN TRUE ELSE routes[ScMatch(dev)] = 0
  /\ scTodo' = Tail(scTodo)
  /\ UNCHANGED <<routes, ress, scSub, lawOn, scEvents, routedTo>>
  /\ UNCHANGED regVars

\* Scatter.removed (scatter.go:105-118): the device's instances are
\* submitted to the template's Resource with verdict Unhealthy.
ScRemovedRoute ==
  /\ ScAtEvent("remove")
  /\ LET dev == Head(scTodo).dev
     IN  /\ ScMatch(dev) # NoTpl
         /\ routes[Templater(dev)] # 0
         /\ scSub' = [res |-> routes[Templater(dev)],
                      ev |-> HealthEvent(Mapper(dev), "Unhealthy")]
  /\ scTodo' = Tail(scTodo)
  /\ UNCHANGED <<routes, ress, lawOn, scEvents, routedTo>>
  /\ UNCHANGED regVars

\* The kubelet calls ListAndWatch on a routed Resource (partition.go:267-
\* 273): its run goroutine starts.
ScLawOn(r) ==
  /\ ~crashed
  /\ r \notin lawOn
  /\ routes[ress[r].tpl] = r
  /\ lawOn' = lawOn \cup {r}
  /\ UNCHANGED <<routes, ress, scTodo, scSub, scEvents, routedTo>>
  /\ UNCHANGED regVars

\* resource.Submit with resource.run (partition.go:247-250, 259-262): a run
\* goroutine of the Resource receives the event and writes its instances
\* into that Resource's table; Submit returns.
ScMerge ==
  /\ ~crashed
  /\ scSub # NoVal
  /\ scSub.res \in lawOn
  /\ ress' = [ress EXCEPT ![scSub.res].tbl = Upsert(@, scSub.ev.instances)]
  /\ scSub' = NoVal
  /\ UNCHANGED <<routes, scTodo, lawOn, scEvents, routedTo>>
  /\ UNCHANGED regVars

\* NewScatter (scatter.go:17-34) behind Discovery.Subscribe: empty routes,
\* and the Init event received, with the devices of Discovery's table.
InitScat ==
  /\ MuxInit({Mon}, {0})
  /\ reads = [s \in Sinks |-> FALSE]
  /\ DiscIdle
  /\ ClientIdle
  /\ ResIdle
  /\ RegIdle
  /\ SliceIdle
  /\ AllocIdle
  /\ LifeIdle
  /\ DreqIdle
  /\ FltIdle
  /\ ParIdle
  /\ HzIdle
  /\ routes = [tpl \in Templates |-> 0]
  /\ ress = <<>>
  /\ scTodo \in {<<>>} \cup {<<[op |-> "add", dev |-> d]>> : d \in ScDevices}
  /\ scSub = NoVal
  /\ lawOn = {}
  /\ scEvents = 0
  /\ routedTo = <<>>

NextScat ==
  \/ \E d \in ScDevices : ScRecvAdded(d) /\ UNCHANGED notScat
  \/ \E d \in ScDevices \cup {NilDev} : ScRecvRemoved(d) /\ UNCHANGED notScat
  \/ ScAddedUnmatched /\ UNCHANGED notScat
  \/ ScAddedRoute /\ UNCHANGED notScat
  \/ ScAddedNew /\ UNCHANGED notScat
  \/ ScRemovedNoop /\ UNCHANGED notScat
  \/ ScRemovedRoute /\ UNCHANGED notScat
  \/ \E r \in 1..Len(ress) : ScLawOn(r) /\ UNCHANGED notScat
  \/ ScMerge /\ UNCHANGED notScat

SpecScat == InitScat /\ [][NextScat]_vars

\* C16: devices with equal templates went to one and the same Resource,
\* devices whose templates differ in domain or prefix went to two distinct
\* Resources (no net.Listen or registration having failed), and a routed
\* Resource's table holds only instances of devices that were routed to it.
C16_RoutingByTemplate ==
  /\ ~envFailed =>
       \A i, j \in 1..Len(routedTo) :
         /\ routedTo[i].res # 0
         /\ (routedTo[i].dev.tpl = routedTo[j].dev.tpl)
              <=> (routedTo[i].res = routedTo[j].res)
  /\ \A r \in 1..Len(ress) : \A id \in Ids :
       (routes[ress[r].tpl] = r /\ ress[r].tbl[id] # NoInst)
         => \E i \in 1..Len(routedTo) :
              routedTo[i].res = r /\ routedTo[i].dev.id = id

\* ---------------------------------------------------------------------
\* udevSlice: the consumer of Discovery's stream made by Discovery.Slice
\* (udev.go:259-311). It subscribes to Discovery's Mux directly
\* (udev.go:307), so it is never sent an Init event.
\* ---------------------------------------------------------------------

\* udev.go:330-337: an add/online event: the monitor stores the device and
\* submits Added, which the Mux passes on in order.
SlMonAdd(id) ==
  /\ slPc \in {"range", "handle"}
  /\ slEvents < MaxSlEvents
  /\ slEvents' = slEvents + 1
  /\ dtable' = [dtable EXCEPT ![id] = slEvents + 1]
  /\ slQueue' = Append(slQueue, AddedEvent(Dev(id, slEvents + 1)))
  /\ UNCHANGED <<slFilter, slState, slPc, slEv, slOut>>

\* udev.go:338-342: a remove/offline event: the monitor reads d.state[id],
\* deletes the entry and submits Removed with what it read, nil when the
\* identity was not in the table.
SlMonRemove(id) ==
  /\ slPc \in {"range", "handle"}
  /\ slEvents < MaxSlEvents
  /\ slEvents' = slEvents + 1
  /\ dtable' = [dtable EXCEPT ![id] = Absent]
  /\ slQueue' = Append(slQueue, RemovedEvent(Lookup(dtable, id)))
  /\ UNCHANGED <<slFilter, slState, slPc, slEv, slOut>>

\* udev.go:272: `for ev := range evCh` receives the next event.
SlRecv ==
  /\ slPc = "range"
  /\ slQueue # <<>>
  /\ slEv' = Head(slQueue)
  /\ slQueue' = Tail(slQueue)
  /\ slPc' = "handle"
  /\ UNCHANGED <<dtable, slFilter, slState, slOut, slEvents>>

\* The copy of slice.state handed to slice.mux.Submit (udev.go:286-290).
SlCopy(st) == {st[i] : i \in {j \in Ids : st[j] # NilDev}}

\* udev.go:285-292: Added: a device the filter accepts is stored and the
\* new copy is submitted; any other is dropped.
SlAdded ==
  /\ slPc = "handle"
  /\ slEv.k = "Added"
  /\ IF slEv.dev.id \in slFilter
       THEN /\ slState' = [slState EXCEPT ![slEv.dev.id] = slEv.dev]
            /\ slOut' = Append(slOut, SlCopy(slState'))
       ELSE UNCHANGED <<slState, slOut>>
  /\ slPc' = "range"
  /\ slEv' = NoVal
  /\ UNCHANGED <<dtable, slQueue, slFilter, slEvents>>

\* udev.go:293-301: Removed with a device: an identity the slice holds is
\* deleted and the new copy is submitted; any other changes nothing.
SlRemoved ==
  /\ slPc = "handle"
  /\ slEv.k = "Removed"
  /\ slEv.dev # NilDev
  /\ IF slState[slEv.dev.id] # NilDev
       THEN /\ slState' = [slState EXCEPT ![slEv.dev.id] = NilDev]
            /\ slOut' = Append(slOut, SlCopy(slState'))
       ELSE UNCHANGED <<slState, slOut>>
  /\ slPc' = "range"
  /\ slEv' = NoVal
  /\ UNCHANGED <<dtable, slQueue, slFilter, slEvents>>

\* udev.go:294: Removed without a device: e.Device is a nil interface and
\* e.Device.Id() is a nil dereference; the goroutine panics.
SlRemovedNil ==
  /\ slPc = "handle"
  /\ slEv.k = "Removed"
  /\ slEv.dev = NilDev
  /\ slPc' = "panicked"
  /\ UNCHANGED <<dtable, slQueue, slFilter, slState, slEv, slOut, slEvents>>

\* Discovery.Slice (udev.go:259-311) has returned: empty slice state, the
\* goroutine at its range, subscribed to Discovery's Mux; the table holds
\* what earlier events left there.
InitSlice ==
  /\ MuxInit({Mon}, {0})
  /\ reads = [s \in Sinks |-> FALSE]
  /\ DiscIdle
  /\ ClientIdle
  /\ ResIdle
  /\ RegIdle
  /\ ScatIdle
  /\ AllocIdle
  /\ LifeIdle
  /\ DreqIdle
  /\ FltIdle
  /\ ParIdle
  /\ HzIdle
  /\ dtable \in [Ids -> {Absent, 1}]
  /\ slQueue = <<>>
  /\ slFilter \in SUBSET Ids
  /\ slState = [i \in Ids |-> NilDev]
  /\ slPc = "range"
  /\ slEv = NoVal
  /\ slOut = <<>>
  /\ slEvents = 0

NextSlice ==
  \/ \E id \in Ids : SlMonAdd(id) /\ UNCHANGED notSlice
  \/ \E id \in Ids : SlMonRemove(id) /\ UNCHANGED notSlice
  \/ SlRecv /\ UNCHANGED notSlice
  \/ SlAdded /\ UNCHANGED notSlice
  \/ SlRemoved /\ UNCHANGED notSlice
  \/ SlRemovedNil /\ UNCHANGED notSlice

SpecSlice == InitSlice /\ [][NextSlice]_vars

\* C17: a remove/offline event for an identity that is not in Discovery's
\* table is a no-op in the Slice consumer: its goroutine does not crash,
\* and every event the monitor published is (or can still be) handled.
C17_RemoveOfUnknownIsNoop == slPc # "panicked"


\* ---------------------------------------------------------------------
\* plugin.Allocate (part_004:103-158)
\* ---------------------------------------------------------------------

\* ContainerAllocateResponse{} (part_004:104, 138): no devices, no envs.
\* Mounts and Annotations are left out: no Instance sets them.
EmptyResponse == [devices |-> <<>>, envs |-> {}]

\* partition.Allocate (partition.go:55-85): one DeviceSpec of the
\* instance's device and Envs keyed by the instance's label. No
\* Instance.Allocate of the repository returns an error.
InstanceAllocate(id) == [devices |-> <<id>>, envs |-> {<<id, id>>}]

\* part_004:114-116: response.Envs[key] = value for every entry of r.Envs.
MergeEnvs(e, f) == {p \in e : \A q \in f : q[1] # p[1]} \cup f

\* A merge that puts the later response's devices first.
MergeReversed(r1, r2) ==
  [devices |-> r2.devices \o r1.devices, envs |-> MergeEnvs(r1.envs, r2.envs)]

\* mergeResponses (part_004:103-129) of two responses: Devices appended,
\* Envs overwritten key by key.
MergeResponses(r1, r2) ==
  [devices |-> r1.devices \o r2.devices, envs |-> MergeEnvs(r1.envs, r2.envs)]

\* part_004:140-152: the loop over containerRequest.DevicesIDs; an
\* identity that is not in the instances map ends the call.
RECURSIVE ContainerAllocate(_, _, _)
ContainerAllocate(ids, insts, containerResponse) ==
  IF ids = <<>> THEN [err |-> "OK", resp |-> containerResponse]
  ELSE IF Head(ids) \notin insts THEN [err |-> "NotFound", resp |-> NoVal]
  ELSE ContainerAllocate(Tail(ids), insts,
         MergeResponses(containerResponse, InstanceAllocate(Head(ids))))

\* part_004:137-154: the loop over request.ContainerRequests; each
\* container response is appended to response.ContainerResponses.
RECURSIVE AllocateLoop(_, _, _)
AllocateLoop(reqs, insts, responses) ==
  IF reqs = <<>> THEN [err |-> "OK", resp |-> responses]
  ELSE LET c == ContainerAllocate(Head(reqs), insts, EmptyResponse)
       IN IF c.err # "OK" THEN [err |-> c.err, resp |-> NoVal]
          ELSE AllocateLoop(Tail(reqs), insts, Append(responses, c.resp))

\* plugin.Allocate (part_004:131-158).
Allocate(request, insts) == AllocateLoop(request, insts, <<>>)

\* Sequences over S of length at most n.
SeqsUpTo(S, n) == UNION {[1..k -> S] : k \in 0..n}

\* The kubelet calls Allocate.
AllocateCall ==
  /\ alPc = "none"
  /\ alPc' = "called"
  /\ UNCHANGED <<alTable, alReq, alResult>>

\* The call returns what plugin.Allocate computes.
AllocateReturn ==
  /\ alPc = "called"
  /\ alResult' = Allocate(alReq, alTable)
  /\ alPc' = "returned"
  /\ UNCHANGED <<alTable, alReq>>

\* A plugin over a Resource with some instance table, and a request of
\* some containers, each naming some device identities.
InitAlloc ==
  /\ MuxInit({Mon}, {0})
  /\ reads = [s \in Sinks |-> FALSE]
  /\ DiscIdle
  /\ ClientIdle
  /\ ResIdle
  /\ RegIdle
  /\ ScatIdle
  /\ SliceIdle
  /\ LifeIdle
  /\ DreqIdle
  /\ FltIdle
  /\ ParIdle
  /\ HzIdle
  /\ alTable \in SUBSET Ids
  /\ alReq \in SeqsUpTo(SeqsUpTo(Ids, MaxDevIds), MaxContainers)
  /\ alPc = "none"
  /\ alResult = NoVal

NextAlloc ==
  \/ AllocateCall /\ UNCHANGED notAlloc
  \/ AllocateReturn /\ UNCHANGED notAlloc

SpecAlloc == InitAlloc /\ [][NextAlloc]_vars

\* C18: a returned Allocate call whose request names an identity that is
\* not in Instances() has the NotFound error and no response; any other
\* has no error and one container response per container request, in
\* request order, each holding the devices of that request's identities in
\* the order the request lists them and the envs of exactly those.
C18_AllocateAllOrNotFound ==
  alPc = "returned" =>
    IF \E c \in 1..Len(alReq) : \E k \in 1..Len(alReq[c]) :
         alReq[c][k] \notin alTable
      THEN alResult.err = "NotFound" /\ alResult.resp = NoVal
      ELSE /\ alResult.err = "OK"
           /\ Len(alResult.resp) = Len(alReq)
           /\ \A c \in 1..Len(alReq) :
                /\ alResult.resp[c].devices = alReq[c]
                /\ alResult.resp[c].envs =
                     {<<alReq[c][k], alReq[c][k]>> : k \in 1..Len(alReq[c])}

C18_Witness ==
  /\ alPc = "returned"
  /\ alResult.err = "OK"
  /\ Len(alReq) = 2
  /\ alReq[1] = <<"a", "b">>
  /\ alReq[2] = <<"b", "a">>
  /\ alResult.resp[1].devices # alResult.resp[2].devices


\* ---------------------------------------------------------------------
\* The lifetime of a ListAndWatch stream and of Resource.Submit
\* (partition.go:247-277, part_004:82-101), for one stream of the kubelet.
\* ---------------------------------------------------------------------

LawCalls == {"c1"}

\* The stream's context is cancelled (the kubelet hangs up). Nothing in
\* resource.ListAndWatch or run reads ctx (partition.go:267-273).
CtxCancel(c) ==
  /\ ~crashed
  /\ consOpen[c]
  /\ ~ctxDone[c]
  /\ ctxDone' = [ctxDone EXCEPT ![c] = TRUE]
  /\ UNCHANGED <<healthClosed, instClosed>>
  /\ UNCHANGED resVars
  /\ UNCHANGED notLaw

\* resource.Close (partition.go:275-277): close(r.healthCh). A Submit
\* blocked in its send panics on the closed channel.
ResClose ==
  /\ ~crashed
  /\ ~healthClosed
  /\ healthClosed' = TRUE
  /\ crashed' = (hcSend # NoVal)
  /\ UNCHANGED <<ctxDone, instClosed>>
  /\ UNCHANGED resVars
  /\ UNCHANGED <<input, inputClosed, register, regClosed, unregister, outputs,
                 inBufSize, hubPc, hubCur, hubTarget, hubPending, hubArg,
                 muxSend, sndRes, subSt, sinkClosed, reads, recv, accepted,
                 regAtTake, timedOut>>
  /\ UNCHANGED <<clientVars, discVars, regVars, scatVars, sliceVars, allocVars,
                 dreqVars, hzVars, fltVars, parVars>>

\* resource.Submit (partition.go:247-250) on a closed Resource: the send
\* on the closed healthCh panics.
SubmitOnClosed ==
  /\ ~crashed
  /\ healthClosed
  /\ nDeltas < MaxDeltas
  /\ crashed' = TRUE
  /\ UNCHANGED lifeVars
  /\ UNCHANGED resVars
  /\ UNCHANGED <<input, inputClosed, register, regClosed, unregister, outputs,
                 inBufSize, hubPc, hubCur, hubTarget, hubPending, hubArg,
                 muxSend, sndRes, subSt, sinkClosed, reads, recv, accepted,
                 regAtTake, timedOut>>
  /\ UNCHANGED <<clientVars, discVars, regVars, scatVars, sliceVars, allocVars,
                 dreqVars, hzVars, fltVars, parVars>>

\* run (partition.go:253, 259): the range over the closed healthCh ends and
\* the deferred close(instanceCh) runs.
RunExit(c) ==
  /\ ~crashed
  /\ runPc[c] = "recv"
  /\ healthClosed
  /\ runPc' = [runPc EXCEPT ![c] = "exited"]
  /\ instClosed' = [instClosed EXCEPT ![c] = TRUE]
  /\ UNCHANGED <<ctxDone, healthClosed>>
  /\ UNCHANGED <<instances, hcSend, lastInst, nDeltas, runEv, instanceCh,
                 consOpen, got, out, mergeLog, startAt, lastVerdict, handled>>
  /\ UNCHANGED notLaw

\* plugin.ListAndWatch (part_004:85, 100): the range over the closed and
\* drained instanceCh ends and the handler returns nil.
ConsEnd(c) ==
  /\ ~crashed
  /\ consOpen[c]
  /\ instClosed[c]
  /\ instanceCh[c] = <<>>
  /\ consOpen' = [consOpen EXCEPT ![c] = FALSE]
  /\ UNCHANGED lifeVars
  /\ UNCHANGED <<instances, hcSend, lastInst, nDeltas, runPc, runEv,
                 instanceCh, got, out, mergeLog, startAt, lastVerdict,
                 handled>>
  /\ UNCHANGED notLaw

\* Scatter.added / removed on a Resource that is not closed.
LawScatterAdded(id, probe) ==
  ~healthClosed /\ ScatterAdded(id, probe) /\ UNCHANGED notRes
LawScatterRemoved(id) ==
  ~healthClosed /\ ScatterRemoved(id) /\ UNCHANGED notRes

\* The steps of the run goroutine of call c.
LawRunStep(c) ==
  \/ RunFirst(c) /\ UNCHANGED notRes
  \/ RunRecv(c) /\ UNCHANGED notRes
  \/ RunMerge(c) /\ UNCHANGED notRes
  \/ RunEmit(c) /\ UNCHANGED notRes
  \/ RunExit(c)

\* stream.Send (part_004:95) succeeds on a live stream only.
LawConsSend(c) == ~ctxDone[c] /\ ConsRecv(c) /\ UNCHANGED notRes

\* stream.Send fails: always on a cancelled stream, at any time on a
\* broken transport.
LawConsFail(c) == ConsStop(c) /\ UNCHANGED notRes

\* The steps the handler of call c takes once it has something to do: on a
\* cancelled stream the Send of a received batch fails.
LawConsStep(c) ==
  \/ LawConsSend(c)
  \/ ctxDone[c] /\ LawConsFail(c)
  \/ ConsEnd(c)

InitLaw == ResStart

NextLaw ==
  \/ \E id \in Ids, probe \in Healths : LawScatterAdded(id, probe)
  \/ \E id \in Ids : LawScatterRemoved(id)
  \/ SubmitOnClosed
  \/ ResClose
  \/ \E c \in LawCalls : LawCall(c) /\ UNCHANGED notRes
  \/ \E c \in LawCalls : CtxCancel(c)
  \/ \E c \in LawCalls : RunFirst(c) /\ UNCHANGED notRes
  \/ \E c \in LawCalls : RunRecv(c) /\ UNCHANGED notRes
  \/ \E c \in LawCalls : RunMerge(c) /\ UNCHANGED notRes
  \/ \E c \in LawCalls : RunEmit(c) /\ UNCHANGED notRes
  \/ \E c \in LawCalls : RunExit(c)
  \/ \E c \in LawCalls : LawConsSend(c)
  \/ \E c \in LawCalls : LawConsFail(c)
  \/ \E c \in LawCalls : ConsEnd(c)

SpecLaw == InitLaw /\ [][NextLaw]_vars

\* The Go scheduler runs every goroutine that can take a step: the run
\* goroutine and the handler. What the kubelet and the Scatter do is up
\* to them.
SpecLawFair ==
  /\ SpecLaw
  /\ \A c \in LawCalls : WF_vars(LawRunStep(c))
  /\ \A c \in LawCalls : WF_vars(LawConsStep(c))

\* C19: a ListAndWatch handler whose stream context is cancelled, or whose
\* Resource is closed, eventually returns (or the process has ended).
C19_HandlerReturns ==
  \A c \in LawCalls :
    (consOpen[c] /\ (ctxDone[c] \/ healthClosed)) ~> (~consOpen[c] \/ crashed)

\* C20: a Submit that was called eventually returns, and every delta
\* handed to Submit is eventually merged into the table (or the process
\* has ended).
C20_SubmitReturnsAndMerges ==
  /\ (hcSend # NoVal) ~> (hcSend = NoVal \/ crashed)
  /\ \A n \in 1..MaxDeltas : (nDeltas >= n) ~> (Len(mergeLog) >= n \/ crashed)


\* ---------------------------------------------------------------------
\* Discovery's table and requests
\* ---------------------------------------------------------------------

StateReq == [t |-> "state", sink |-> NoSink]
StopReq == [t |-> "stop", sink |-> NoSink]

\* A snapshot that ignores the filter.
WholeTable(st, p) == st

\* udev.go:346-351: a fresh map with the entries of d.state whose device the
\* filter accepts.
FilteredCopy(st, p) == [id \in Ids |-> IF id \in p THEN st[id] ELSE Absent]

\* Discovery.State (udev.go:249-253) is entered: the caller blocks in
\* `d.requests <- await`.
DStateCall(p) ==
  /\ ~crashed
  /\ ~reqClosed
  /\ stSt = "none"
  /\ stSt' = "pending"
  /\ stFilter' = p
  /\ requests' = requests \cup {StateReq}
  /\ UNCHANGED <<stReply, stopSt, reqClosed, retries>>
  /\ UNCHANGED <<state, monPc, monSink, monInit, dsubSt, evCount, subTable, subAt>>
  /\ UNCHANGED muxVars

\* udev.go:344-352: the monitor receives the stateRequest, builds the map
\* and replies; State returns it.
MonState ==
  /\ MonAtSelect
  /\ StateReq \in requests
  /\ requests' = requests \ {StateReq}
  /\ stReply' = FilteredCopy(state, stFilter)
  /\ stSt' = "done"
  /\ UNCHANGED <<stFilter, stopSt, reqClosed, retries>>
  /\ UNCHANGED <<state, monPc, monSink, monInit, dsubSt, evCount, subTable, subAt>>
  /\ UNCHANGED muxVars

\* The caller of State deletes an entry of the map it was given.
DEditReply(id) ==
  /\ ~crashed
  /\ stSt = "done"
  /\ stReply[id] # Absent
  /\ stReply' = [stReply EXCEPT ![id] = Absent]
  /\ UNCHANGED <<stSt, stFilter, stopSt, reqClosed, retries>>
  /\ UNCHANGED discVars
  /\ UNCHANGED muxVars

\* Discovery.Close (udev.go:242-246) is entered: the caller blocks in
\* `d.requests <- await`.
DCloseCall ==
  /\ ~crashed
  /\ ~reqClosed
  /\ stopSt = "none"
  /\ stopSt' = "pending"
  /\ requests' = requests \cup {StopReq}
  /\ UNCHANGED <<stSt, stFilter, stReply, reqClosed, retries>>
  /\ UNCHANGED <<state, monPc, monSink, monInit, dsubSt, evCount, subTable, subAt>>
  /\ UNCHANGED muxVars

\* udev.go:366-368 with the deferred calls of udev.go:313-315: the monitor
\* replies to the stopRequest and returns; close(d.requests) runs, on which
\* every caller still blocked in its send panics, then d.mux.Close().
MonStop ==
  /\ MonAtSelect
  /\ StopReq \in requests
  /\ requests' = requests \ {StopReq}
  /\ stopSt' = "done"
  /\ monPc' = "exited"
  /\ reqClosed' = TRUE
  /\ regClosed' = TRUE
  /\ crashed' = (requests # {StopReq} \/ regClosed \/ register # {})
  /\ UNCHANGED <<stSt, stFilter, stReply, retries>>
  /\ UNCHANGED <<state, monSink, monInit, dsubSt, evCount, subTable, subAt>>
  /\ UNCHANGED <<input, inputClosed, register, unregister, outputs,
                 inBufSize, hubPc, hubCur, hubTarget, hubPending, hubArg,
                 muxSend, sndRes, subSt, sinkClosed, reads, recv, accepted,
                 regAtTake, timedOut>>

\* udev.go:369-370: the monitor receives an error from errChan.
MonError ==
  /\ MonAtSelect
  /\ retries < MaxRetries
  /\ retries' = retries + 1
  /\ monPc' = "retry"
  /\ UNCHANGED <<stSt, stFilter, stReply, stopSt, reqClosed>>
  /\ UNCHANGED <<state, requests, monSink, monInit, dsubSt, evCount, subTable, subAt>>
  /\ UNCHANGED muxVars

\* A monitor that leaves its loop when the device channel cannot be made.
MonRetryGiveUp ==
  /\ ~crashed
  /\ monPc = "retry"
  /\ retries < MaxRetries
  /\ retries' = retries + 1
  /\ monPc' = "exited"
  /\ UNCHANGED <<stSt, stFilter, stReply, stopSt, reqClosed>>
  /\ UNCHANGED <<state, requests, monSink, monInit, dsubSt, evCount, subTable, subAt>>
  /\ UNCHANGED muxVars

\* udev.go:371-378: DeviceChan fails again; the monitor sleeps a second
\* and goes back to the retry label.
MonRetryFail ==
  /\ ~crashed
  /\ monPc = "retry"
  /\ retries < MaxRetries
  /\ retries' = retries + 1
  /\ UNCHANGED monPc
  /\ UNCHANGED <<stSt, stFilter, stReply, stopSt, reqClosed>>
  /\ UNCHANGED <<state, requests, monSink, monInit, dsubSt, evCount, subTable, subAt>>
  /\ UNCHANGED muxVars

\* udev.go:372-379: DeviceChan succeeds; the monitor is back in its loop
\* with the new channels.
MonRetryOk ==
  /\ ~crashed
  /\ monPc = "retry"
  /\ monPc' = "select"
  /\ UNCHANGED dreqVars
  /\ UNCHANGED <<state, requests, monSink, monInit, dsubSt, evCount, subTable, subAt>>
  /\ UNCHANGED muxVars

\* The goroutine behind a sink stops receiving: a Scatter blocked in
\* res.Submit (partition.go:248), a Slice blocked in slice.mux.Submit.
ReaderStall(s) ==
  /\ ~crashed
  /\ reads[s]
  /\ reads' = [reads EXCEPT ![s] = FALSE]
  /\ UNCHANGED <<input, inputClosed, register, regClosed, unregister, outputs,
                 inBufSize, hubPc, hubCur, hubTarget, hubPending, hubArg,
                 muxSend, sndRes, subSt, sinkClosed, recv, crashed, accepted,
                 regAtTake, timedOut>>
  /\ UNCHANGED discVars
  /\ UNCHANGED dreqVars

\* Discovery with one subscriber, one State call and one Close call.
DrSinks == {"s1"}

\* The filters the State call is made with.
DrFilters == {{"a"}, Ids}

\* NewDiscovery has enumerated device "a".
InitDiscReq ==
  /\ InitDisc
  /\ reads["s2"] = FALSE
  /\ state = [id \in Ids |-> IF id = "a" THEN 1 ELSE Absent]

\* The steps of the monitor goroutine.
MonStep ==
  \/ \E s \in DrSinks : MonNewSub(s) /\ UNCHANGED notDisc
  \/ MonSendInit /\ UNCHANGED notDisc
  \/ MonReplySub /\ UNCHANGED notDisc
  \/ MonState /\ UNCHANGED notDreq
  \/ MonStop /\ UNCHANGED notDreq
  \/ MonRetryOk /\ UNCHANGED notDreq
  \/ SubmitTimeout(Mon) /\ UNCHANGED <<discVars, notDisc>>

\* The steps of the Mux's run goroutine.
HubStep ==
  \/ HubTakeDirect(Mon) /\ UNCHANGED <<discVars, notDisc>>
  \/ HubDeliver /\ UNCHANGED <<discVars, notDisc>>
  \/ \E s \in DrSinks : HubRegister(s) /\ UNCHANGED <<discVars, notDisc>>
  \/ HubReply /\ UNCHANGED <<discVars, notDisc>>
  \/ HubExit /\ UNCHANGED <<discVars, notDisc>>

NextDiscReq ==
  \/ HubTakeDirect(Mon) /\ UNCHANGED <<discVars, notDisc>>
  \/ HubDeliver /\ UNCHANGED <<discVars, notDisc>>
  \/ \E s \in DrSinks : HubRegister(s) /\ UNCHANGED <<discVars, notDisc>>
  \/ HubReply /\ UNCHANGED <<discVars, notDisc>>
  \/ HubExit /\ UNCHANGED <<discVars, notDisc>>
  \/ SubmitTimeout(Mon) /\ UNCHANGED <<discVars, notDisc>>
  \/ \E id \in Ids : MonDevAdd(id) /\ UNCHANGED notDisc
  \/ \E id \in Ids : MonDevRemove(id) /\ UNCHANGED notDisc
  \/ \E s \in DrSinks : ~reqClosed /\ DSubscribe(s) /\ UNCHANGED notDisc
  \/ \E s \in DrSinks : MonNewSub(s) /\ UNCHANGED notDisc
  \/ MonSendInit /\ UNCHANGED notDisc
  \/ MonReplySub /\ UNCHANGED notDisc
  \/ \E p \in DrFilters : DStateCall(p) /\ UNCHANGED notDreq
  \/ MonState /\ UNCHANGED notDreq
  \/ \E id \in Ids : DEditReply(id) /\ UNCHANGED notDreq
  \/ DCloseCall /\ UNCHANGED notDreq
  \/ MonStop /\ UNCHANGED notDreq
  \/ MonError /\ UNCHANGED notDreq
  \/ MonRetryFail /\ UNCHANGED notDreq
  \/ MonRetryOk /\ UNCHANGED notDreq
  \/ \E s \in DrSinks : ReaderStall(s) /\ UNCHANGED notDreq

SpecDiscReq == InitDiscReq /\ [][NextDiscReq]_vars

\* The Go scheduler runs the monitor and the Mux's run goroutine whenever
\* they can take a step, and a Submit's timer fires; kernel events, channel
\* errors and what the callers and readers do are up to them.
SpecDiscReqFair ==
  /\ SpecDiscReq
  /\ WF_vars(MonStep)
  /\ WF_vars(HubStep)

\* The monitor handles a kernel event in this step.
KernelEventStep == evCount' = evCount + 1

\* C21: the table changes only when the monitor handles a kernel event; an
\* add/online stores the new device under its identity, leaves every other
\* entry alone and hands one Added with that device to the Mux; a
\* remove/offline deletes the identity's entry, leaves every other entry
\* alone and hands one Removed to the Mux with what the table held under the
\* identity before. The table is a map: one entry per identity.
C21_TableFollowsKernelEvents ==
  /\ [](state \in [Ids -> {Absent} \cup 1..(MaxEvents + 1)])
  /\ [][~KernelEventStep => state' = state]_vars
  /\ [][KernelEventStep =>
         /\ muxSend[Mon] = NoVal
         /\ \E id \in Ids :
              \/ /\ state'[id] # Absent
                 /\ state' = [state EXCEPT ![id] = state'[id]]
                 /\ muxSend'[Mon] = [k |-> "Added", dev |-> Dev(id, state'[id])]
              \/ /\ state' = [state EXCEPT ![id] = Absent]
                 /\ muxSend'[Mon] =
                      [k |-> "Removed",
                       dev |-> IF state[id] = Absent THEN NilDev
                               ELSE Dev(id, state[id])]]_vars

\* C21's case: after an add and a remove of a device that was in the
\* table, the Removed in the monitor's hands carries the device the table
\* held, and the Added before it was accepted by the Mux.
C21_Witness ==
  /\ evCount = 2
  /\ muxSend[Mon].k = "Removed"
  /\ muxSend[Mon].dev # NilDev
  /\ state[muxSend[Mon].dev.id] = Absent
  /\ \E i \in 1..Len(accepted) :
       accepted[i].k = "Added" /\ accepted[i].dev = muxSend[Mon].dev


\* C22: a State call that was made returns (or the process has ended),
\* whatever the subscribers do with their sinks.
C22_StateReturnsWithoutSubscribers == (stSt = "pending") ~> (stSt = "done" \/ crashed)


\* C23: the map a State call returns holds exactly the table's entries of
\* the identities its filter accepts, as they were when the monitor handled
\* the request; kernel events handled later do not change the returned
\* map, and a change of the returned map does not change the table.
C23_StateReturnsFilteredCopy ==
  /\ [][(stSt = "pending" /\ stSt' = "done") =>
          \A id \in Ids :
            stReply'[id] = IF id \in stFilter THEN state[id] ELSE Absent]_vars
  /\ [][KernelEventStep => stReply' = stReply]_vars
  /\ [][(stSt = "done" /\ stReply' # stReply) => state' = state]_vars

\* C23's case: the filter accepted "a" only while the table holds "b" too,
\* and the caller deleted "a" from its map while the table kept its own.
C23_Witness ==
  /\ stSt = "done"
  /\ stFilter = {"a"}
  /\ state["b"] # Absent
  /\ state["a"] > 1
  /\ stReply["a"] = Absent
  /\ evCount = 2


\* C24: the monitor replies to a stop request once and leaves its loop
\* with the request channel closed, and from then on every sink that is
\* subscribed is eventually closed.
C24_StopClosesEverything ==
  /\ [][stopSt = "done" => stopSt' = "done"]_vars
  /\ [](stopSt = "done" => (monPc = "exited" /\ reqClosed /\ regClosed))
  /\ (stopSt = "done") ~>
       (\A s \in Sinks : subSt[s] = "subscribed" => sinkClosed[s])


\* C25: from a channel error on, the monitor is either still retrying or
\* back in its loop (it never leaves), the table is what it was before the
\* error, and after a successful attempt the monitor is at its select again,
\* ready for device events and requests.
C25_RetryUntilReconnected ==
  /\ [][((monPc = "retry") \/ (monPc' = "retry")) =>
          (monPc' \in {"retry", "select"} /\ state' = state)]_vars
  /\ [][(monPc = "retry" /\ monPc' = "select") => MonAtSelect']_vars

\* C25's case: the channel failed, attempts failed, one succeeded, and the
\* monitor has a device in the table and an event in its hands again.
C25_Witness ==
  /\ retries = MaxRetries
  /\ monPc = "select"
  /\ evCount = MaxEvents
  /\ muxSend[Mon] # NoVal


\* C26: once the Slice has handled every event the monitor published, the
\* last list it published is Discovery's table restricted to the filter,
\* the devices that were in the table when the Slice was made included.
C26_SliceListIsFilteredTable ==
  (slPc = "range" /\ slQueue = <<>> /\ slOut # <<>>) =>
    slOut[Len(slOut)] =
      {Dev(id, dtable[id]) : id \in {j \in slFilter : dtable[j] # Absent}}


\* C27: at no moment are two goroutines at the write of one Resource's
\* instance table (partition.go:260-262).
C27_OneWriterAtATime ==
  \A c1, c2 \in Calls :
    (runPc[c1] = "merge" /\ runPc[c2] = "merge") => c1 = c2


\* C28: a Healthz response has status 200 exactly when no probe failed;
\* otherwise it has status 500 and its body names exactly the resources
\* whose probe failed; the request leaves the registry, its plugins and
\* their endpoints as they were.
C28_HealthzReportsFailedProbes ==
  /\ [](hzReply # NoVal =>
          /\ (hzReply.status = 200) <=> (hzProbe = {})
          /\ hzReply.status \in {200, 500}
          /\ hzReply.body = hzProbe)
  /\ [][hzReply' # hzReply \/ hzProbe' # hzProbe => UNCHANGED regVars]_vars

\* C28's case: two plugins in the registry, the probe of one failed and the
\* response is a 500 naming that one only.
C28_Witness ==
  /\ hzReply # NoVal
  /\ Cardinality(plugins) = 2
  /\ Cardinality(hzProbe) = 1
  /\ hzReply.status = 500
  /\ \E e \in plugins : e.name \in hzProbe /\ NoEndpoint(e.name)


\* ---------------------------------------------------------------------
\* mux.Filter (filter.go:11-25)
\* ---------------------------------------------------------------------

\* The values written to in.
FltVals == 1..MaxIn

\* A filter that lets every value pass.
FltKeepAll(p, v) == TRUE

\* filter(v) (filter.go:18).
FltKeep(p, v) == v \in p

\* filter.go:17-20: the goroutine receives the value a writer sends on in;
\* a value the filter accepts is to be sent on out, any other is dropped.
FltRecv(v) ==
  /\ fPc = "range"
  /\ ~fInClosed
  /\ Len(fSent) < MaxIn
  /\ fSent' = Append(fSent, v)
  /\ IF FltKeep(fPred, v)
       THEN fHold' = v /\ fPc' = "send"
       ELSE UNCHANGED <<fHold, fPc>>
  /\ UNCHANGED <<fPred, fInClosed, fOut, fOutClosed>>

\* The writer closes in.
FltInClose ==
  /\ fPc \in {"range", "send"}
  /\ ~fInClosed
  /\ fInClosed' = TRUE
  /\ UNCHANGED <<fPred, fSent, fPc, fHold, fOut, fOutClosed>>

\* filter.go:19: `out <- v` meets the reader of out.
FltEmit ==
  /\ fPc = "send"
  /\ fOut' = Append(fOut, fHold)
  /\ fHold' = NoVal
  /\ fPc' = "range"
  /\ UNCHANGED <<fPred, fSent, fInClosed, fOutClosed>>

\* filter.go:15, 17: the range over the closed in ends and the deferred
\* close(out) runs.
FltExit ==
  /\ fPc = "range"
  /\ fInClosed
  /\ fPc' = "done"
  /\ fOutClosed' = TRUE
  /\ UNCHANGED <<fPred, fSent, fInClosed, fHold, fOut>>

\* Filter(in, filter) has returned: the goroutine is at its range.
InitFilter ==
  /\ MuxInit({Mon}, {0})
  /\ reads = [s \in Sinks |-> FALSE]
  /\ DiscIdle
  /\ ClientIdle
  /\ ResIdle
  /\ RegIdle
  /\ ScatIdle
  /\ SliceIdle
  /\ AllocIdle
  /\ LifeIdle
  /\ DreqIdle
  /\ HzIdle
  /\ ParIdle
  /\ fPred \in SUBSET FltVals
  /\ fSent = <<>>
  /\ fInClosed = FALSE
  /\ fPc = "range"
  /\ fHold = NoVal
  /\ fOut = <<>>
  /\ fOutClosed = FALSE

NextFilter ==
  \/ \E v \in FltVals : FltRecv(v) /\ UNCHANGED notFlt
  \/ FltInClose /\ UNCHANGED notFlt
  \/ FltEmit /\ UNCHANGED notFlt
  \/ FltExit /\ UNCHANGED notFlt

\* The goroutine runs whenever it can, and out is read to its end, as a
\* `for val := range result` does.
SpecFilter ==
  /\ InitFilter /\ [][NextFilter]_vars
  /\ WF_vars(FltEmit /\ UNCHANGED notFlt)
  /\ WF_vars(FltExit /\ UNCHANGED notFlt)

\* C29: what was read from out, with the value the goroutine is sending,
\* is the sequence of the values written to in that satisfy the filter, in
\* their order; out is closed only when in is closed and every such value
\* was read, and once in is closed out is eventually closed.
C29_FilterEmitsMatchingInOrder ==
  /\ [](fOut \o (IF fPc = "send" THEN <<fHold>> ELSE <<>>) =
          SelectSeq(fSent, LAMBDA v : v \in fPred))
  /\ [](fOutClosed =>
          (fInClosed /\ fOut = SelectSeq(fSent, LAMBDA v : v \in fPred)))
  /\ fInClosed ~> fOutClosed

\* C29's case: three values were written, the filter let some pass and
\* dropped some, and out is closed.
C29_Witness ==
  /\ fOutClosed
  /\ Len(fSent) = MaxIn
  /\ Len(fOut) \in 1..(MaxIn - 1)

\* part_000:34-54: a filter that accepts nothing gave a closed, empty out.
FilterRejectsAll ==
  fOutClosed /\ fPred = {} /\ Len(fSent) = MaxIn /\ fOut = <<>>


\* C30: a template's route, once stored, is never replaced or removed; a
\* route appears only for a template that had none, in the step of a
\* registry.Add call for that template's name that succeeded; and a step
\* whose Add call failed leaves every route as it was.
C30_RoutesOnlyGrow ==
  [][\A tpl \in Templates :
       /\ routes[tpl] # 0 => routes'[tpl] = routes[tpl]
       /\ (routes[tpl] = 0 /\ routes'[tpl] # 0) =>
            /\ Len(addLog') = Len(addLog) + 1
            /\ addLog'[Len(addLog')] =
                 [name |-> Name(tpl), had |-> FALSE, res |-> "ok"]
       /\ (Len(addLog') = Len(addLog) + 1 /\ addLog'[Len(addLog')].res # "ok")
            => routes' = routes]_vars

\* C30's case: a first Add succeeded and gave its template a route, a
\* second Add, for another template, failed, and that template has no
\* route; the Resource made for it is held by nothing.
C30_Witness ==
  /\ Len(addLog) = 2
  /\ addLog[1].res = "ok"
  /\ addLog[2].res = "exists"
  /\ Len(ress) = 2
  /\ routes[ress[1].tpl] = 1
  /\ routes[ress[2].tpl] = 0


\* C31: when hup has handled a kubelet restart and every cancelled plugin
\* has shut down, the plugin the registry holds under a name is serving,
\* and no other plugin of that name is live (no Add having been refused,
\* whose plugin is C33's matter).
C31_RegistryHoldsTheLivePlugin ==
  (HupSettled /\ \A i \in 1..Len(addLog) : addLog[i].res = "ok") =>
    \A e \in plugins :
      /\ plugs[e.gen].st = "serving"
      /\ \A g \in 1..Len(plugs) :
           (plugs[g].name = e.name /\ plugs[g].st # "stopped") => g = e.gen


\* An Add call returns in this step, with a result of the set rs.
AddReturns(rs) ==
  /\ Len(addLog') = Len(addLog) + 1
  /\ addLog'[Len(addLog')].res \in rs

\* C32: an Add that returns an error leaves the registry's plugin set as it
\* was before the call.
C32_FailedAddLeavesPluginSet ==
  [][AddReturns({"bindfail", "exists", "regfail"}) => plugins' = plugins]_vars

\* C33: an Add refused for its name leaves every plugin and every socket
\* file as it was: no server is added and the endpoint of the stored
\* plugin is neither removed nor replaced.
C33_DuplicateAddTouchesNothing ==
  [][AddReturns({"exists"}) => (plugs' = plugs /\ sockFile' = sockFile)]_vars

\* C34: while hup ranges over the plugins no failure ends the process.
C34_HupSurvivesFailure == hupPc = "range" => ~crashed


\* C35: the Removed event the monitor hands to the Mux carries a device,
\* never the nil that a lookup of an identity not in the table gives.
C35_RemovedCarriesADevice ==
  muxSend[Mon].k = "Removed" => muxSend[Mon].dev # NilDev


\* C36: when the Submit of a kernel event's publication returns the
\* timeout error, the table does not hold the event's change: a device
\* whose Added was dropped is not in the table, and a device whose Removed
\* was dropped still is.
C36_TimeoutUndoesTableChange ==
  [][(muxSend[Mon] # NoVal /\ sndRes'[Mon] = "timeout") =>
       LET ev == muxSend[Mon]
       IN  /\ ev.k = "Added" => state'[ev.dev.id] # ev.dev.ver
           /\ (ev.k = "Removed" /\ ev.dev # NilDev)
                => state'[ev.dev.id] = ev.dev.ver]_vars


\* C37: once Close has been called on the Mux, no call made on it (Submit,
\* Subscribe, Close, a cancel func) ends the process.
C37_CallsAfterCloseReturn == [][regClosed => ~crashed']_vars


\* ---------------------------------------------------------------------
\* Cancel funcs called more than once (mux.go:241-245)
\* ---------------------------------------------------------------------

\* The cancel func of a Subscribe is called again after it has returned:
\* the caller blocks in `c.unregister <- ar` once more.
CancelAgain(s) ==
  /\ ~crashed
  /\ subSt[s] = "cancelled"
  /\ subSt' = [subSt EXCEPT ![s] = "cancelling"]
  /\ unregister' = unregister \cup {s}
  /\ UNCHANGED <<input, inputClosed, register, regClosed, outputs,
                 inBufSize, hubPc, hubCur, hubTarget, hubPending, hubArg,
                 muxSend, sndRes, sinkClosed, reads, recv, crashed, accepted,
                 regAtTake, timedOut, nextVal, closeAt>>

\* One Mux, its subscribers and their cancel funcs, and Close; nothing is
\* submitted.
NextCancel ==
  \/ \E s \in Sinks : HubRegister(s) /\ UNCHANGED <<clientVars, notMux>>
  \/ \E s \in Sinks : HubUnregister(s) /\ UNCHANGED <<clientVars, notMux>>
  \/ HubReply /\ UNCHANGED <<clientVars, notMux>>
  \/ HubExit /\ UNCHANGED <<clientVars, notMux>>
  \/ \E s \in Sinks : CSubscribe(s) /\ UNCHANGED notMux
  \/ \E s \in Sinks : CCancel(s) /\ UNCHANGED notMux
  \/ \E s \in Sinks : CancelAgain(s) /\ UNCHANGED notMux
  \/ CClose /\ UNCHANGED notMux

SpecCancel == InitMux /\ [][NextCancel]_vars

\* C38: run() never closes a sink that is closed already, neither in its
\* unregister case nor in its cleanup when it returns.
C38_SinkClosedOnce ==
  [][/\ \A s \in Sinks :
          (s \in unregister /\ hubPc = "select" /\ hubPc' = "reply"
             /\ hubArg' = s) => ~sinkClosed[s]
     /\ (hubPc = "select" /\ hubPc' = "exited")
          => \A s \in outputs : ~sinkClosed[s]]_vars


\* ---------------------------------------------------------------------
\* generic.Parent (udev.go:64-80, 225-233)
\* ---------------------------------------------------------------------

\* udev.go:330-337: the monitor stores a new generic for an added device;
\* its parent field is not set.
ParAdd(id) ==
  /\ ~crashed
  /\ parEvents < MaxEvents
  /\ parEvents' = parEvents + 1
  /\ parState' = [parState EXCEPT ![id] = parEvents + 2]
  /\ parField' = [parField EXCEPT ![id] = NilDev]
  /\ UNCHANGED <<kParent, parRes>>

\* udev.go:338-342: the entry of a removed device is deleted.
ParRemove(id) ==
  /\ ~crashed
  /\ parEvents < MaxEvents
  /\ parState[id] # Absent
  /\ parEvents' = parEvents + 1
  /\ parState' = [parState EXCEPT ![id] = Absent]
  /\ parField' = [parField EXCEPT ![id] = NilDev]
  /\ UNCHANGED <<kParent, parRes>>

\* generic.Parent (udev.go:75-80) on the table's device id: a parent field
\* that is set is returned; one that is nil is first filled with
\* DeviceById of the device's own Syspath.
ParentCall(id) ==
  /\ ~crashed
  /\ parState[id] # Absent
  /\ LET res == IF parField[id] # NilDev THEN parField[id]
                ELSE Lookup(parState, id)
     IN  /\ parField' = [parField EXCEPT ![id] = res]
         /\ parRes' = [dev |-> Dev(id, parState[id]), res |-> res]
  /\ UNCHANGED <<kParent, parState, parEvents>>

\* NewDiscovery (udev.go:219-233): the enumerated devices are stored one
\* after the other; a device's parent field is set when its kernel parent
\* was stored before it, and left nil otherwise.
InitParent ==
  /\ MuxInit({Mon}, {0})
  /\ reads = [s \in Sinks |-> FALSE]
  /\ DiscIdle
  /\ ClientIdle
  /\ ResIdle
  /\ RegIdle
  /\ ScatIdle
  /\ SliceIdle
  /\ AllocIdle
  /\ LifeIdle
  /\ DreqIdle
  /\ HzIdle
  /\ FltIdle
  /\ kParent \in [Ids -> Ids \cup {NoName}]
  /\ \A id \in Ids : kParent[id] # id
  /\ \A id \in Ids : kParent[id] # NoName => kParent[kParent[id]] = NoName
  /\ parState \in [Ids -> {Absent, 1}]
  /\ parField \in [Ids -> {NilDev} \cup {Dev(id, 1) : id \in Ids}]
  /\ \A id \in Ids :
       parField[id] # NilDev =>
         /\ parState[id] # Absent
         /\ kParent[id] # NoName
         /\ parState[kParent[id]] # Absent
         /\ parField[id] = Dev(kParent[id], 1)
  /\ parRes = NoVal
  /\ parEvents = 0

notPar == <<muxVars, clientVars, discVars, resVars, regVars, scatVars,
            sliceVars, allocVars, lifeVars, dreqVars, hzVars, fltVars>>

NextParent ==
  \/ \E id \in Ids : ParAdd(id) /\ UNCHANGED notPar
  \/ \E id \in Ids : ParRemove(id) /\ UNCHANGED notPar
  \/ \E id \in Ids : ParentCall(id) /\ UNCHANGED notPar

SpecParent == InitParent /\ [][NextParent]_vars

\* C39: what Parent() returned for a device is no device, or a device with
\* the identity of the device's kernel parent; it is never a device with
\* the device's own identity.
C39_ParentIsTheKernelParent ==
  parRes # NoVal =>
    /\ parRes.res.id # parRes.dev.id
    /\ parRes.res # NilDev => parRes.res.id = kParent[parRes.dev.id]


====
